---- MODULE Spec2Model ----
(***************************************************************************)
(* Verification model of the copy-trading core of betmirror:               *)
(*   - TradeMonitorService (polling, dedup, high-water marks, eviction)    *)
(*   - BotEngine start/stop wiring of the monitor                          *)
(*   - TradeExecutorService.copyTrade with the adapter's order sweep       *)
(*   - computeProportionalSizing                                           *)
(* Money and prices are exact rationals or fixed-point integers; the JS    *)
(* event loop is modelled by one action per run-to-completion step (the    *)
(* code between two awaits).                                               *)
(***************************************************************************)
EXTENDS Integers, Sequences, FiniteSets, TLC

(***************************************************************************)
(* Bounds of the model                                                     *)
(***************************************************************************)
\* number of tick() invocations that may be in flight at once
MaxConcurrent == 2
\* longest activity feed a fetch returns (the code asks for limit=20)
MaxFeedLen == 2
\* capacity threshold of the processed-identity table, scaled down from the
\* 2000 of alpha-registry.service.js:106 so that the sweep runs in the model
PruneThreshold == 1

\* copyTrade executions that may be in flight at once for one account
MaxInFlight == 2
\* copyTrade calls in one behaviour
MaxSignals == 3
\* distributeFeesOnProfit calls in one behaviour
MaxFeeCalls == 2
\* checkAndSweepProfits calls in one behaviour
MaxFundCalls == 3
\* signals copied in the worked example of sizing
MaxScenarioSignals == 1
\* pendingSpend of an account, in whole orders
MaxAccountSpend == 2
\* getTraderBalance calls that may be in flight at once
MaxBalanceCalls == 2
\* positions pushed to activePositions in one behaviour
MaxPositions == 2
\* checkAutoTp runs that may be in flight at once (the watchdog interval has
\* no overlap guard)
MaxTpRuns == 2

(***************************************************************************)
(* Program constants                                                       *)
(***************************************************************************)
\* env.aggregationWindowSeconds as set by BotEngine.startServices
AggregationWindowSeconds == 300
\* the floor in Math.max(env.aggregationWindowSeconds, 600)
MinWindowSeconds == 600
\* const chunkSize = 5
ChunkSize == 5

(***************************************************************************)
(* Input domains                                                           *)
(***************************************************************************)
\* tracked traders, in the order of deps.userAddresses
UserAddresses == <<"0xTraderAAAA", "0xTraderBBBB">>
Traders == {UserAddresses[i] : i \in 1..Len(UserAddresses)}
\* transaction identities and the (fixed) on-chain time of each transaction
Hashes == {"h1", "h2", "h3"}
TsOf == [h \in Hashes |-> CASE h = "h1" -> 700 [] h = "h2" -> 1000 [] OTHER -> 1300]
\* the values Date.now()/1000 takes; the clock never runs backwards
Times == {800, 1100, 1700}
\* config.startCursor; 0 stands for "not given" (falsy)
StartCursors == {0, 700}
\* activity entries a feed can contain
Activities == {[hash |-> h, type |-> "TRADE"] : h \in Hashes}
              \cup {[hash |-> "h1", type |-> "REDEEM"]}
Feeds == UNION {[1..n -> Activities] : n \in 0..MaxFeedLen}

Max(a, b) == IF a >= b THEN a ELSE b
Min(a, b) == IF a <= b THEN a ELSE b

Slots == 1..MaxConcurrent

(***************************************************************************)
(* Exact rational arithmetic for the JS numbers (USD, shares, prices)      *)
(***************************************************************************)
Abs(x) == IF x < 0 THEN -x ELSE x

RECURSIVE GCD(_, _)
GCD(a, b) == IF b = 0 THEN a ELSE GCD(b, a % b)

\* the rational n/d (d > 0) in lowest terms
Rat(n, d) == LET g == GCD(Abs(n), d) IN [n |-> n \div g, d |-> d \div g]
RInt(k) == [n |-> k, d |-> 1]
\* (sums and comparisons go through the least common denominator)
RAdd(a, b) == LET g == GCD(a.d, b.d)
              IN Rat(a.n * (b.d \div g) + b.n * (a.d \div g), (a.d \div g) * b.d)
RSub(a, b) == LET g == GCD(a.d, b.d)
              IN Rat(a.n * (b.d \div g) - b.n * (a.d \div g), (a.d \div g) * b.d)
\* (products cancel common factors before multiplying)
RMul(a, b) == LET g1 == GCD(Abs(a.n), b.d)
                  g2 == GCD(Abs(b.n), a.d)
              IN Rat((a.n \div g1) * (b.n \div g2), (a.d \div g2) * (b.d \div g1))
\* a / b for b > 0
RDiv(a, b) == RMul(a, [n |-> b.d, d |-> b.n])
RLt(a, b) == LET g == GCD(a.d, b.d) IN a.n * (b.d \div g) < b.n * (a.d \div g)
RLe(a, b) == LET g == GCD(a.d, b.d) IN a.n * (b.d \div g) <= b.n * (a.d \div g)
RMax(a, b) == IF RLt(a, b) THEN b ELSE a
RMin(a, b) == IF RLt(b, a) THEN b ELSE a
\* variant: rounded up, Math.ceil(a * 100) / 100
RCeil2(a) == LET g == GCD(100, a.d)
             IN Rat(((a.n * (100 \div g)) + (a.d \div g) - 1) \div (a.d \div g), 100)

\* Math.floor(a * 100) / 100
RFloor2(a) == LET g == GCD(100, a.d)
              IN Rat((a.n * (100 \div g)) \div (a.d \div g), 100)

(***************************************************************************)
(* Input domains of the executor                                           *)
(***************************************************************************)
Procs == 1..MaxInFlight
Sides == {"BUY", "SELL"}
\* signal.price
SignalPrices == {Rat(1, 1000), Rat(2, 5), Rat(19, 20)}
\* signal.sizeUsd
SignalSizes == {RInt(3000)}
\* what getTraderBalance returns: a total raised to >= 1000, or the default 10000
TraderBalances == {RInt(1000), RInt(10000)}
\* env.tradeMultiplier
Multipliers == {RInt(1)}
\* on-chain USDC of the proxy wallet at the start
ChainBalances == {RInt(10)}
\* positions.find(...).valueUsd for a SELL; "none" when no position is held
PositionValues == {RInt(6)}
\* LiquidityMetrics.health and env.minLiquidityFilter
Healths == {"CRITICAL", "LOW", "MEDIUM", "HIGH"}
\* top level of the crossing side of the book: price and size (shares)
BookLevels == {[price |-> Rat(1, 1000), size |-> RInt(100000)],
               [price |-> Rat(7, 20), size |-> RInt(20)],
               [price |-> Rat(21, 50), size |-> Rat(1001, 200)],
               [price |-> Rat(21, 50), size |-> RInt(1000)],
               [price |-> Rat(43, 100), size |-> RInt(1000)],
               [price |-> Rat(171, 200), size |-> RInt(1000)],
               [price |-> Rat(999, 1000), size |-> RInt(1000)]}
\* exchange answers to one fill-or-kill order
Responses == {"ok", "rejected", "error"}
\* messages of the errors an adapter call rejects with
ErrorMessages == {"timeout"}

(***************************************************************************)
(* Input domains of the fee distributor                                    *)
(***************************************************************************)
\* tradeId (the caller passes signal.marketId)
TradeIds == {"m1", "m2"}
\* netProfitUsdc
Profits == {RInt(-1), RInt(0), Rat(1, 2), RInt(1), RInt(25), Rat(1234567, 1000000)}
\* what alphaRegistry.getListerForWallet resolves with
Listers == {"null", "0xLister"}
\* env.adminRevenueWallet
AdminRevenueWallet == "0xAdmin"
\* ExecutionResult.status of the copyTrade that precedes the fee call
CopyStatuses == {"FILLED", "FAILED", "SKIPPED"}
\* signal.sizeUsd of a SELL signal
SellSizes == {RInt(0), RInt(10), Rat(1234567, 100000)}

(***************************************************************************)
(* Input domains of the fund check                                         *)
(***************************************************************************)
\* wall clock of the fund check, minutes since the process started
FundTimes == {0, 1, 30, 59, 60, 90, 120, 121}

(***************************************************************************)
(* Input domains of two accounts run in one process                        *)
(***************************************************************************)
Accounts == {"acctA", "acctB"}
\* env.registryApiUrl of an account; "" is unset
RegistryUrls == {"", "urlA", "urlB"}
\* identities a monitor records, and the activity times they carry
AccountKeys == {"k1", "k2"}
AccountTimes == {1, 2}

(***************************************************************************)
(* Input domains of the trader-balance cache                               *)
(***************************************************************************)
\* Date.now() in milliseconds, around one and two lifetimes of an entry
CacheTimes == {0, 1, 299999, 300000, 300001, 600000}
\* the summed value of the positions the data API returns
TotalValues == {0, 2000, 10000}
BalanceCalls == 1..MaxBalanceCalls

(***************************************************************************)
(* Input domains of the position book                                      *)
(***************************************************************************)
\* signal.tokenId
TokenIds == {"tokA", "tokB"}
\* what executor.copyTrade resolves with in BotEngine: the executed size
ExecutedSizes == {0, 5}
TpRuns == 1..MaxTpRuns
\* config.autoTp, and the gain of the best bid over the entry price, in percent
AutoTp == 20
GainPercents == {10, 20}
\* what adapter.createOrder answers to the SELL of executeManualExit: filled
\* in full, filled in part (success with sharesFilled below position.shares),
\* or rejected / thrown
ExitResults == {[success |-> TRUE, fill |-> "full"],
                [success |-> TRUE, fill |-> "partial"],
                [success |-> FALSE, fill |-> "none"]}

(***************************************************************************)
(* Input domains of the start-up of an engine                              *)
(***************************************************************************)
\* for (let attempt = 1; attempt <= 3; attempt++) of the L2 handshake
HandshakeAttempts == 3

VARIABLES
    \* ---- TradeMonitorService ----
    now,              \* wall clock, seconds
    processedHashes,  \* Map<hash, activityTime>, as a function on its keys
    lastFetchTime,    \* Map<trader, high-water mark>, as a function on its keys
    isPolling,        \* this.isPolling
    timer,            \* this.timer: "undefined", "live" or "cleared"
    orphanTimers,     \* an interval no longer referenced by this.timer is live
    ticks,            \* the tick() invocations in flight, by slot
    \* ---- BotEngine ----
    isRunning,        \* BotEngine.isRunning
    startCursor,      \* config.startCursor
    \* ---- history ----
    monState,         \* "none", "started" (start() called), "stopped"
    emitted,          \* identities this monitor has passed to onDetectedTrade
    dupEmitted,       \* this monitor passed one identity to onDetectedTrade twice
    delivered,        \* identities passed to executor.copyTrade for the account
    dupDelivered,     \* one identity was passed to copyTrade twice
    evicted,          \* identities the sweep has deleted from the table
    seenAfterEvict,   \* a feed returned an identity after its eviction
    failedFetch,      \* traders of which a fetch has failed
    \* ---- TradeExecutorService and its environment ----
    pendingSpend,     \* this.pendingSpend
    tradeMultiplier,  \* env.tradeMultiplier
    chainBalance,     \* USDC the chain reports for the proxy wallet
    procs,            \* the copyTrade executions in flight, by slot
    \* ---- history ----
    started,          \* copyTrade calls made so far
    unsettled,        \* BUY targets submitted and not yet reflected in chainBalance
    lastOrder,        \* the order submitted by the latest step, if any
    lastResult,       \* the ExecutionResult returned by the latest step, if any
    \* ---- computeProportionalSizing called on its own ----
    sizingCall,       \* input and result of the latest call
    sizingPrev,       \* input and result of the call before it
    \* ---- FeeDistributorService and the chain ----
    feeCall,          \* the distributeFeesOnProfit invocation in flight
    feeTxs,           \* the USDC transfers it has launched, in order
    \* ---- history ----
    feeCalls,         \* distributeFeesOnProfit calls made so far
    feeEvents,        \* the distribution events returned so far
    lastFee,          \* what the call that returned in the latest step returned
    copyStatus,       \* status the latest copyTrade of onDetectedTrade returned
    \* ---- FundManagerService ----
    fundNow,          \* wall clock, minutes
    lastCheckTime,    \* when the underlying check last ran; -1 before the first
    \* ---- history ----
    fundCalls,        \* checkAndSweepProfits calls made so far
    fundChecks,       \* the underlying checks run so far: time and bypass flag
    lastFund,         \* the checkAndSweepProfits call of the latest step, if any
    \* ---- BotEngine start-up ----
    engineOn,         \* this.isRunning of the engine being started and stopped
    hasCreds,         \* config.l2ApiCredentials holds a key and a secret
    setup,            \* where start() / proceedWithPostFundingSetup stand
    fundWatcher,      \* this.fundWatcher: "undefined", "live" or "cleared"
    watcherBusy,      \* a fund watcher callback awaits checkFunding
    monitorOf,        \* this.monitor: "undefined", "started" or "stopped"
    watchdogTimer,    \* this.watchdogTimer: "undefined", "live" or "cleared"
    stopReturned,     \* stop() has returned and start() was not called since
    \* ---- two accounts in one process ----
    apiUrl,           \* alphaRegistry.apiUrl, the module-level registry client
    accounts,         \* per account: its monitor, executor and fee distributor
    lastAccountOp,    \* the account the latest step operated on
    \* ---- TradeExecutorService.balanceCache ----
    cacheNow,         \* Date.now()
    balanceCache,     \* this.balanceCache
    balanceCalls,     \* the getTraderBalance calls in flight, by slot
    lastBalance,      \* what the latest step was for getTraderBalance
    \* ---- BotEngine positions ----
    activePositions,  \* this.activePositions
    tpRuns,           \* the checkAutoTp runs in flight, by slot
    \* ---- history ----
    totalPnl,         \* this.stats.totalPnl, in cents
    pushed,           \* positions pushed so far
    exitCalls,        \* calls of executeManualExit for each position, counted up to two
    lastPosEvent      \* what the latest step was for the position book

monVars == <<now, processedHashes, lastFetchTime, isPolling, timer, orphanTimers,
             ticks, isRunning, startCursor, monState, emitted, dupEmitted,
             delivered, dupDelivered, evicted, seenAfterEvict, failedFetch>>

execVars == <<pendingSpend, tradeMultiplier, chainBalance, procs, started,
              unsettled, lastOrder, lastResult>>

sizVars == <<sizingCall, sizingPrev>>

feeVars == <<feeCall, feeTxs, feeCalls, feeEvents, lastFee, copyStatus>>

fundVars == <<fundNow, lastCheckTime, fundCalls, fundChecks, lastFund>>

bootVars == <<engineOn, hasCreds, setup, fundWatcher, watcherBusy, monitorOf,
              watchdogTimer, stopReturned>>

acctVars == <<apiUrl, accounts, lastAccountOp>>

cacheVars == <<cacheNow, balanceCache, balanceCalls, lastBalance>>

posVars == <<activePositions, tpRuns, totalPnl, pushed, exitCalls, lastPosEvent>>

vars == <<monVars, execVars, sizVars, feeVars, fundVars, posVars, cacheVars,
         acctVars,
         bootVars>>

(***************************************************************************)
(* TradeMonitorService                                                     *)
(***************************************************************************)
\* a trader's position inside one tick:
\*   "wait"    its chunk has not been reached
\*   "fetch"   awaiting httpGet
\*   "handler" awaiting deps.onDetectedTrade(signal); rest = entries not yet examined
\*   "callback" the same, onDetectedTrade itself awaiting a persistence callback
\*   "done"    fetchTraderActivities returned
IdleTrader == [pc |-> "done", rest |-> <<>>, due |-> {}, cur |-> "none"]
FreeTick == [status |-> "free", kind |-> "none", cutoff |-> 0, chunk |-> 0,
             tr |-> [t \in Traders |-> IdleTrader]]

\* Map.get(trader) || 0
LastTime(lft, trader) == IF trader \in DOMAIN lft THEN lft[trader] ELSE 0

\* Map.set(key, value)
MapSet(m, k, v) == [x \in DOMAIN m \cup {k} |-> IF x = k THEN v ELSE m[x]]

\* const cutoffTime = now - Math.max(env.aggregationWindowSeconds, 600)
CutoffTime(t) == t - Max(AggregationWindowSeconds, MinWindowSeconds)

\* variant: the sweep runs in every tick, whatever the size of the table
PruneAlways(ph, cutoff) == [h \in {x \in DOMAIN ph : ~(ph[x] < cutoff)} |-> ph[h]]

\* variant: the sweep deletes nothing
PruneKeepAll(ph, cutoff) == ph

\* the eviction sweep at the start of tick()
Prune(ph, cutoff) ==
    IF Cardinality(DOMAIN ph) > PruneThreshold
    THEN [h \in {x \in DOMAIN ph : ~(ph[x] < cutoff)} |-> ph[h]]
    ELSE ph

\* variant: the identity table is never consulted
IsProcessedNever(ph, hash) == FALSE

\* this.processedHashes.has(activity.transactionHash)
IsProcessed(ph, hash) == hash \in DOMAIN ph

\* variant: an entry at the mark passes (activityTime < lastTime)
EligibleAtMark(a, trader, cutoff, ph, lft) ==
    /\ a.type = "TRADE" \/ a.type = "ORDER_FILLED"
    /\ ~(TsOf[a.hash] < cutoff)
    /\ ~IsProcessed(ph, a.hash)
    /\ ~(TsOf[a.hash] < LastTime(lft, trader))

\* the three "continue" filters of fetchTraderActivities, and the type filter
Eligible(a, trader, cutoff, ph, lft) ==
    /\ a.type = "TRADE" \/ a.type = "ORDER_FILLED"
    /\ ~(TsOf[a.hash] < cutoff)
    /\ ~IsProcessed(ph, a.hash)
    /\ ~(TsOf[a.hash] <= LastTime(lft, trader))

\* index of the first entry of feed that passes the filters, 0 when none does
RECURSIVE FirstEligible(_, _, _, _, _, _)
FirstEligible(feed, i, trader, cutoff, ph, lft) ==
    IF i > Len(feed) THEN 0
    ELSE IF Eligible(feed[i], trader, cutoff, ph, lft) THEN i
    ELSE FirstEligible(feed, i + 1, trader, cutoff, ph, lft)

\* if (!trader || trader.length < 10) return Promise.resolve()
ValidTrader(trader) == Len(trader) >= 10

\* userAddresses.slice(i, i + chunkSize)
Chunk(i) == {UserAddresses[k] : k \in (i + 1)..Min(i + ChunkSize, Len(UserAddresses))}

\* the traders of chunk i launched: the valid ones start their httpGet
LaunchChunk(tr, i) ==
    [t \in Traders |->
        IF t \in Chunk(i)
        THEN (IF ValidTrader(t) THEN [pc |-> "fetch", rest |-> <<>>, due |-> {}, cur |-> "none"] ELSE IdleTrader)
        ELSE tr[t]]

ChunkDone(tr, i) == \A t \in Chunk(i) : tr[t].pc = "done"

\* run the chunk loop of tick() forward from chunk i over all chunks that
\* complete without awaiting anything; result is the tick record, "free" when
\* tick() has returned
RECURSIVE AdvanceChunks(_)
AdvanceChunks(tk) ==
    IF ~ChunkDone(tk.tr, tk.chunk) THEN tk
    ELSE IF tk.chunk + ChunkSize < Len(UserAddresses)
         THEN AdvanceChunks([tk EXCEPT !.chunk = tk.chunk + ChunkSize,
                                       !.tr = LaunchChunk(tk.tr, tk.chunk + ChunkSize)])
         ELSE [FreeTick EXCEPT !.kind = tk.kind]

LowestFree == CHOOSE s \in Slots : /\ ticks[s].status = "free"
                                   /\ \A r \in Slots : ticks[r].status = "free" => s <= r
HasFree == \E s \in Slots : ticks[s].status = "free"

Running(s) == ticks[s].status = "run"

\* tick() up to its first await: clock read, eviction, first chunk launched
BeginTick(kind, ph) ==
    LET cutoff == CutoffTime(now)
        pruned == Prune(ph, cutoff)
        tk0 == [status |-> "run", kind |-> kind, cutoff |-> cutoff, chunk |-> 0,
                tr |-> LaunchChunk([t \in Traders |-> [pc |-> "wait", rest |-> <<>>, due |-> {}, cur |-> "none"]], 0)]
    IN /\ processedHashes' = pruned
       /\ evicted' = (evicted \cup (DOMAIN ph \ DOMAIN pruned))
       /\ ticks' = [ticks EXCEPT ![LowestFree] = tk0]

\* what follows the return of tick() in its caller:
\*   start():        this.timer = setInterval(...)
\*   timer callback: finally { this.isPolling = false }
AfterTick(kind) ==
    IF kind = "start"
    THEN /\ timer' = "live"
         /\ orphanTimers' = (orphanTimers \/ timer = "live")
         /\ UNCHANGED isPolling
    ELSE /\ isPolling' = FALSE
         /\ UNCHANGED <<timer, orphanTimers>>

\* a trader's fetchTraderActivities has moved to position tr1 in tick s
StepTrader(s, trader, tr1) ==
    LET tk1 == AdvanceChunks([ticks[s] EXCEPT !.tr[trader] = tr1])
    IN IF tk1.status = "free"
       THEN /\ ticks' = [ticks EXCEPT ![s] = FreeTick]
            /\ AfterTick(tk1.kind)
       ELSE /\ ticks' = [ticks EXCEPT ![s] = tk1]
            /\ UNCHANGED <<isPolling, timer, orphanTimers>>

\* the identities of a feed that pass the filters as the tables stand when
\* the feed arrives
Due(feed, trader, cutoff, ph, lft) ==
    {feed[i].hash : i \in {j \in 1..Len(feed) :
                              Eligible(feed[j], trader, cutoff, ph, lft)}}

\* the for-loop of fetchTraderActivities from the head of feed up to the next
\* await (the handler call) or the end of the feed; due (history) holds the
\* identities of the fetch that passed the filters on arrival and have not
\* been emitted
ScanFeed(s, trader, feed, due) ==
    LET i == FirstEligible(feed, 1, trader, ticks[s].cutoff, processedHashes, lastFetchTime)
    IN IF i = 0
       THEN /\ StepTrader(s, trader, IdleTrader)
            /\ UNCHANGED <<processedHashes, lastFetchTime, emitted, dupEmitted,
                           delivered, dupDelivered>>
       ELSE LET h == feed[i].hash
                at == TsOf[h]
            IN /\ processedHashes' = MapSet(processedHashes, h, at)
               /\ lastFetchTime' = MapSet(lastFetchTime, trader,
                                          Max(LastTime(lastFetchTime, trader), at))
               /\ emitted' = emitted \cup {h}
               /\ dupEmitted' = (dupEmitted \/ h \in emitted)
               \* onDetectedTrade: if (!this.isRunning) return; ... executor.copyTrade(signal)
               /\ delivered' = IF isRunning THEN delivered \cup {h} ELSE delivered
               /\ dupDelivered' = (dupDelivered \/ (isRunning /\ h \in delivered))
               /\ StepTrader(s, trader,
                             [pc |-> "handler", rest |-> SubSeq(feed, i + 1, Len(feed)),
                              due |-> due \ {h}, cur |-> h])

\* start(startCursor) on the monitor: seeds the marks, runs the initial tick
MonitorStartBody(lft, ph) ==
    /\ lastFetchTime' = IF startCursor # 0
                        THEN [t \in DOMAIN lft \cup Traders |->
                                 IF t \in Traders THEN startCursor ELSE lft[t]]
                        ELSE lft
    /\ BeginTick("start", ph)

\* TradeMonitorService.start() called on a monitor that was started before
MonitorStart ==
    /\ monState # "none"
    /\ HasFree
    /\ MonitorStartBody(lastFetchTime, processedHashes)
    /\ monState' = "started"
    /\ UNCHANGED <<now, failedFetch, isPolling, timer, orphanTimers, isRunning, startCursor,
                   emitted, dupEmitted, delivered, dupDelivered, seenAfterEvict>>

\* the setInterval callback of start()
TimerFire ==
    /\ timer = "live" \/ orphanTimers
    /\ ~isPolling
    /\ HasFree
    /\ isPolling' = TRUE
    /\ BeginTick("timer", processedHashes)
    /\ UNCHANGED <<now, failedFetch, lastFetchTime, timer, orphanTimers, isRunning, startCursor,
                   monState, emitted, dupEmitted, delivered, dupDelivered, seenAfterEvict>>

\* httpGet resolves with an activity array
FetchReturn ==
    \E s \in Slots, trader \in Traders, feed \in Feeds :
        /\ Running(s)
        /\ ticks[s].tr[trader].pc = "fetch"
        /\ \A i \in 1..Len(feed) : TsOf[feed[i].hash] <= now
        /\ ScanFeed(s, trader, feed,
                    Due(feed, trader, ticks[s].cutoff, processedHashes, lastFetchTime))
        /\ seenAfterEvict' = (seenAfterEvict \/
                              \E i \in 1..Len(feed) : feed[i].hash \in evicted)
        /\ UNCHANGED <<now, failedFetch, isRunning, startCursor, monState, evicted>>

\* variant: the rejection is not caught and ends the tick through Promise.all
FetchFailEndsTick ==
    \E s \in Slots, trader \in Traders :
        /\ Running(s)
        /\ ticks[s].tr[trader].pc = "fetch"
        /\ failedFetch' = failedFetch \cup {trader}
        /\ ticks' = [ticks EXCEPT ![s] = FreeTick]
        /\ UNCHANGED <<now, processedHashes, lastFetchTime, isRunning, startCursor,
                       monState, emitted, dupEmitted, delivered, dupDelivered, evicted,
                       seenAfterEvict, isPolling, timer, orphanTimers>>

\* httpGet rejects, or resolves with something that is not an array: the
\* catch of fetchTraderActivities (or its early return) ends the trader's turn
FetchFail ==
    \E s \in Slots, trader \in Traders :
        /\ Running(s)
        /\ ticks[s].tr[trader].pc = "fetch"
        /\ failedFetch' = failedFetch \cup {trader}
        /\ StepTrader(s, trader, IdleTrader)
        /\ UNCHANGED <<now, processedHashes, lastFetchTime, isRunning, startCursor,
                       monState, emitted, dupEmitted, delivered, dupDelivered, evicted,
                       seenAfterEvict>>

\* onDetectedTrade of BotEngine after copyTrade returned a size > 0:
\*   await this.callbacks.onTradeComplete({...})
\*   await this.callbacks.onStatsUpdate(this.stats)
HandlerAwaitsCallback ==
    \E s \in Slots, trader \in Traders :
        /\ Running(s)
        /\ ticks[s].tr[trader].pc = "handler"
        /\ ticks' = [ticks EXCEPT ![s].tr[trader].pc = "callback"]
        /\ UNCHANGED <<now, failedFetch, processedHashes, lastFetchTime, isPolling,
                       timer, orphanTimers, isRunning, startCursor, monState, emitted,
                       dupEmitted, delivered, dupDelivered, evicted, seenAfterEvict>>

\* deps.onDetectedTrade(signal) resolves: the for-loop goes on
HandlerReturn ==
    \E s \in Slots, trader \in Traders :
        /\ Running(s)
        /\ ticks[s].tr[trader].pc \in {"handler", "callback"}
        /\ ScanFeed(s, trader, ticks[s].tr[trader].rest, ticks[s].tr[trader].due)
        /\ UNCHANGED <<now, failedFetch, isRunning, startCursor, monState, evicted, seenAfterEvict>>

\* variant: the rejection is not caught and ends the tick through Promise.all
HandlerThrowEndsTick ==
    \E s \in Slots, trader \in Traders :
        /\ Running(s)
        /\ ticks[s].tr[trader].pc \in {"handler", "callback"}
        /\ ticks' = [ticks EXCEPT ![s] = FreeTick]
        /\ UNCHANGED <<now, failedFetch, processedHashes, lastFetchTime, isRunning,
                       startCursor, monState, emitted, dupEmitted, delivered,
                       dupDelivered, evicted, seenAfterEvict, isPolling, timer,
                       orphanTimers>>

\* deps.onDetectedTrade(signal) rejects: caught by the catch of fetchTraderActivities
HandlerThrow ==
    \E s \in Slots, trader \in Traders :
        /\ Running(s)
        /\ ticks[s].tr[trader].pc \in {"handler", "callback"}
        /\ StepTrader(s, trader, [IdleTrader EXCEPT !.cur = ticks[s].tr[trader].cur])
        /\ UNCHANGED <<now, failedFetch, processedHashes, lastFetchTime, isRunning, startCursor,
                       monState, emitted, dupEmitted, delivered, dupDelivered, evicted,
                       seenAfterEvict>>

ClockAdvance ==
    /\ \E t \in Times : t > now /\ now' = t
    /\ UNCHANGED <<failedFetch, processedHashes, lastFetchTime, isPolling, timer, orphanTimers,
                   ticks, isRunning, startCursor, monState, emitted, dupEmitted, delivered,
                   dupDelivered, evicted, seenAfterEvict>>

(***************************************************************************)
(* BotEngine                                                               *)
(***************************************************************************)
\* BotEngine.stop(): isRunning = false; monitor.stop()
\*   TradeMonitorService.stop(): if (this.timer) clearInterval(this.timer);
\*                               this.isPolling = false
EngineStop ==
    /\ isRunning' = FALSE
    /\ IF monState # "none"
       THEN /\ timer' = IF timer = "undefined" THEN "undefined" ELSE "cleared"
            /\ isPolling' = FALSE
            /\ monState' = "stopped"
       ELSE UNCHANGED <<timer, isPolling, monState>>
    /\ UNCHANGED <<now, failedFetch, processedHashes, lastFetchTime, orphanTimers, ticks,
                   startCursor, emitted, dupEmitted, delivered, dupDelivered, evicted,
                       seenAfterEvict>>

\* BotEngine.start() ... startServices(): a new TradeMonitorService is built
\* and started with config.startCursor.  Taken when the previous monitor (if
\* any) has no tick in flight and no live interval, so that the state below is
\* that of the only monitor alive.
EngineStart ==
    /\ ~isRunning
    /\ \A s \in Slots : ~Running(s)
    /\ timer # "live" /\ ~orphanTimers
    /\ isRunning' = TRUE
    /\ isPolling' = FALSE
    /\ timer' = "undefined"
    /\ orphanTimers' = FALSE
    /\ emitted' = {}
    /\ dupEmitted' = FALSE
    /\ seenAfterEvict' = FALSE
    /\ monState' = "started"
    /\ evicted' = {}
    /\ processedHashes' = <<>>
    /\ ticks' = [ticks EXCEPT ![1] =
                    [status |-> "run", kind |-> "start", cutoff |-> CutoffTime(now),
                     chunk |-> 0,
                     tr |-> LaunchChunk([t \in Traders |-> [pc |-> "wait", rest |-> <<>>, due |-> {}, cur |-> "none"]], 0)]]
    /\ lastFetchTime' = IF startCursor # 0 THEN [t \in Traders |-> startCursor] ELSE <<>>
    /\ UNCHANGED <<now, failedFetch, startCursor, delivered, dupDelivered>>

(***************************************************************************)
(* computeProportionalSizing                                               *)
(***************************************************************************)
\* variant: the Math.max(0, ...) clamps left out
computeSizingUnclamped(input) ==
    LET denom == RMax(RInt(1), RAdd(input.traderUsdBalance, input.traderTradeUsd))
        ratio == RDiv(input.yourUsdBalance, denom)
        base == RMul(input.traderTradeUsd, ratio)
        targetUsdSize == RMax(RInt(1), RMul(base, input.multiplier))
    IN [targetUsdSize |-> targetUsdSize, ratio |-> ratio]

computeProportionalSizing(input) ==
    LET denom == RMax(RInt(1), RAdd(input.traderUsdBalance,
                                    RMax(RInt(0), input.traderTradeUsd)))
        ratio == RMax(RInt(0), RDiv(input.yourUsdBalance, denom))
        base == RMax(RInt(0), RMul(input.traderTradeUsd, ratio))
        targetUsdSize == RMax(RInt(1), RMul(base, RMax(RInt(0), input.multiplier)))
    IN [targetUsdSize |-> targetUsdSize, ratio |-> ratio]

\* the bounded input domain of the function
SizingInputs == [yourUsdBalance : {RInt(-5), RInt(0), RInt(10), RInt(1000)},
                 traderUsdBalance : {RInt(0), RInt(10000)},
                 traderTradeUsd : {RInt(-10), RInt(0), RInt(500)},
                 multiplier : {RInt(-1), RInt(0), Rat(1, 2), RInt(2)}]
NoCall == [made |-> FALSE]

\* one call of the function
ComputeSizing ==
    \E input \in SizingInputs :
        /\ sizingPrev' = sizingCall
        /\ sizingCall' = [made |-> TRUE, input |-> input,
                          result |-> computeProportionalSizing(input)]

SizInit ==
    /\ sizingCall = NoCall
    /\ sizingPrev = NoCall

(***************************************************************************)
(* FeeDistributorService.distributeFeesOnProfit and its caller             *)
(***************************************************************************)
IdleFee == [pc |-> "idle"]
NoFee == [kind |-> "none"]

\* const feePercentage = 0.01
FeePercentage == Rat(1, 100)

\* parseUnits(share.toFixed(6), 6): the share rounded to the nearest 0.000001
\* USDC (shares are positive here)
RRound6(a) ==
    LET g == GCD(1000000, a.d)
        num == a.n * (1000000 \div g)
        den == a.d \div g
    IN Rat((2 * num + den) \div (2 * den), 1000000)

\* variant: a share of exactly $0.01 counts as dust
DustRejectedAtThreshold(listerShare) == RLe(listerShare, Rat(1, 100))

\* Dust protection: if (listerShare < 0.01) return null
DustRejected(listerShare) == RLt(listerShare, Rat(1, 100))

\* `return null` of call k, with what the call was given and had resolved
NullFee(k, tradeId, profit, lister, why) ==
    [kind |-> "null", call |-> k, tradeId |-> tradeId, profit |-> profit,
     lister |-> lister, why |-> why]

\* the event object distributeFeesOnProfit returns (txHash and timestamp left out)
FeeEvent(k, tradeId, profit, listerShare, platformShare, lister) ==
    [call |-> k, tradeId |-> tradeId, profitAmount |-> profit,
     listerFee |-> listerShare, platformFee |-> platformShare,
     listerAddress |-> lister, platformAddress |-> AdminRevenueWallet]

\* this.usdcContract.transfer(to, amount) launched by call k
Transfer(k, role, to, amount) ==
    [call |-> k, role |-> role, to |-> to, amount |-> amount, status |-> "pending"]

\* distributeFeesOnProfit(tradeId, netProfitUsdc, trader) up to its first await
DistributeBegin(tradeId, netProfitUsdc) ==
    /\ feeCall.pc = "idle"
    /\ feeCalls < MaxFeeCalls
    /\ feeCalls' = feeCalls + 1
    /\ IF RLe(netProfitUsdc, RInt(0))
       THEN /\ feeCall' = IdleFee
            /\ lastFee' = NullFee(feeCalls', tradeId, netProfitUsdc, "null", "no_profit")
       ELSE /\ feeCall' = [pc |-> "lookup", id |-> feeCalls', tradeId |-> tradeId,
                           profit |-> netProfitUsdc]
            /\ lastFee' = NoFee
    /\ UNCHANGED <<feeTxs, feeEvents>>

\* distributeFeesOnProfit called with any trade id and profit
DistributeFeesOnProfit ==
    /\ \E tradeId \in TradeIds, profit \in Profits : DistributeBegin(tradeId, profit)
    /\ UNCHANGED copyStatus

\* onDetectedTrade of main after executor.copyTrade has returned, for a SELL
\* signal: the result of copyTrade is dropped, estimatedProfit =
\* signal.sizeUsd * 0.1, and the distributor called with signal.marketId when
\* it is positive
OnDetectedSell ==
    \E marketId \in TradeIds, sizeUsd \in SellSizes, status \in CopyStatuses :
        LET estimatedProfit == RMul(sizeUsd, Rat(1, 10))
        IN /\ copyStatus' = status
           /\ IF RLt(RInt(0), estimatedProfit)
              THEN DistributeBegin(marketId, estimatedProfit)
              ELSE /\ feeCall.pc = "idle"
                   /\ lastFee' = NoFee
                   /\ UNCHANGED <<feeCall, feeTxs, feeCalls, feeEvents>>

\* getListerForWallet has resolved: no lister, dust, or both transfers launched
ListerReturn ==
    \E listerAddress \in Listers :
        LET k == feeCall.id
            listerShare == RMul(feeCall.profit, FeePercentage)
            platformShare == RMul(feeCall.profit, FeePercentage)
        IN /\ feeCall.pc = "lookup"
           /\ IF listerAddress = "null"
              THEN /\ feeCall' = IdleFee
                   /\ lastFee' = NullFee(k, feeCall.tradeId, feeCall.profit,
                                         listerAddress, "no_lister")
                   /\ UNCHANGED feeTxs
              ELSE IF DustRejected(listerShare)
              THEN /\ feeCall' = IdleFee
                   /\ lastFee' = NullFee(k, feeCall.tradeId, feeCall.profit,
                                         listerAddress, "dust")
                   /\ UNCHANGED feeTxs
              ELSE /\ feeTxs' = feeTxs \o
                         << Transfer(k, "lister", listerAddress, RRound6(listerShare)),
                            Transfer(k, "platform", AdminRevenueWallet,
                                     RRound6(platformShare)) >>
                   /\ feeCall' = [feeCall EXCEPT !.pc = "await"]
                             @@ [lister |-> listerAddress, listerShare |-> listerShare,
                                 platformShare |-> platformShare]
                   /\ lastFee' = NoFee
           /\ UNCHANGED <<feeCalls, feeEvents>>

\* transfer i is awaited by the call in flight
Awaited(i) == feeCall.pc = "await" /\ feeTxs[i].call = feeCall.id

\* a launched transfer is sent; when it was the second of the two the call in
\* flight awaits, Promise.all resolves and the call returns its event
TransferSent ==
    \E i \in DOMAIN feeTxs :
        /\ feeTxs[i].status = "pending"
        /\ feeTxs' = [feeTxs EXCEPT ![i].status = "sent"]
        /\ IF Awaited(i) /\ \A j \in DOMAIN feeTxs' :
                                feeTxs'[j].call = feeCall.id => feeTxs'[j].status = "sent"
           THEN LET event == FeeEvent(feeCall.id, feeCall.tradeId, feeCall.profit,
                                      feeCall.listerShare, feeCall.platformShare,
                                      feeCall.lister)
                IN /\ feeCall' = IdleFee
                   /\ feeEvents' = Append(feeEvents, event)
                   /\ lastFee' = [kind |-> "event", call |-> feeCall.id,
                                  tradeId |-> feeCall.tradeId, profit |-> feeCall.profit,
                                  lister |-> feeCall.lister, event |-> event]
           ELSE /\ lastFee' = NoFee
                /\ UNCHANGED <<feeCall, feeEvents>>
        /\ UNCHANGED feeCalls

\* a launched transfer is rejected; when the call in flight awaits it,
\* Promise.all rejects at once and the catch returns null, whatever the state
\* of the other transfer
TransferFail ==
    \E i \in DOMAIN feeTxs :
        /\ feeTxs[i].status = "pending"
        /\ feeTxs' = [feeTxs EXCEPT ![i].status = "failed"]
        /\ IF Awaited(i)
           THEN /\ feeCall' = IdleFee
                /\ lastFee' = NullFee(feeCall.id, feeCall.tradeId, feeCall.profit,
                                      feeCall.lister, "transfer_failed")
           ELSE /\ lastFee' = NoFee
                /\ UNCHANGED feeCall
        /\ UNCHANGED <<feeCalls, feeEvents>>

\* the steps of a distributeFeesOnProfit call after its first
DistributeSteps ==
    /\ \/ ListerReturn
       \/ TransferSent
       \/ TransferFail
    /\ UNCHANGED copyStatus

FeeInit ==
    /\ feeCall = IdleFee
    /\ feeTxs = <<>>
    /\ feeCalls = 0
    /\ feeEvents = <<>>
    /\ lastFee = NoFee
    /\ copyStatus = "none"

(***************************************************************************)
(* FundManagerService.checkAndSweepProfits and its call sites in main      *)
(***************************************************************************)
\* the minimum interval between two underlying checks: one hour
FundCheckIntervalMinutes == 60

NoFundCall == [called |-> FALSE]

\* variant: the throttle compares with the wrong sign and never closes
ThrottledNever(last, t) == last >= 0 /\ last - t >= FundCheckIntervalMinutes

\* the throttle is closed: a check ran less than the interval ago
Throttled(last, t) == last >= 0 /\ t - last < FundCheckIntervalMinutes

\* checkAndSweepProfits(force): returns at once when throttled and not
\* forced, otherwise notes the time and runs the underlying balance check
CheckAndSweepProfits(force) ==
    /\ fundCalls < MaxFundCalls
    /\ fundCalls' = fundCalls + 1
    /\ UNCHANGED fundNow
    /\ IF ~force /\ Throttled(lastCheckTime, fundNow)
       THEN /\ lastFund' = [called |-> TRUE, force |-> force, ran |-> FALSE]
            /\ UNCHANGED <<lastCheckTime, fundChecks>>
       ELSE /\ lastFund' = [called |-> TRUE, force |-> force, ran |-> TRUE]
            /\ lastCheckTime' = fundNow
            /\ fundChecks' = Append(fundChecks, [at |-> fundNow, force |-> force])

\* main at start-up: await fundManager.checkAndSweepProfits()
FundCheckAtStartup == fundCalls = 0 /\ CheckAndSweepProfits(FALSE)

\* the timer main sets after each detected trade:
\* setTimeout(async () => { await fundManager.checkAndSweepProfits() }, 15000)
FundCheckAfterTrade == fundCalls > 0 /\ CheckAndSweepProfits(FALSE)

\* an externally triggered event that takes the bypass
FundCheckForced == fundCalls > 0 /\ CheckAndSweepProfits(TRUE)

\* time passes
FundClockAdvance ==
    /\ \E t \in FundTimes : t > fundNow /\ fundNow' = t
    /\ lastFund' = NoFundCall
    /\ UNCHANGED <<lastCheckTime, fundCalls, fundChecks>>

FundInit ==
    /\ fundNow = 0
    /\ lastCheckTime = -1
    /\ fundCalls = 0
    /\ fundChecks = <<>>
    /\ lastFund = NoFundCall

(***************************************************************************)
(* BotEngine.start, startFundWatcher, proceedWithPostFundingSetup, stop    *)
(***************************************************************************)
NoSetup == [pc |-> "idle", attempt |-> 0]

\* proceedWithPostFundingSetup() up to its first await (activateOnChain)
ProceedWithPostFundingSetup == [pc |-> "activate", attempt |-> 0]

\* what start-up does when one of its awaits has resolved: the code does not
\* look at isRunning again
AfterAwait(on, next) == next

\* start(): if (this.isRunning) return; this.isRunning = true; ... await checkFunding()
BotStart ==
    /\ ~engineOn
    /\ setup.pc = "idle" /\ ~watcherBusy
    /\ engineOn' = TRUE
    /\ setup' = [pc |-> "funding", attempt |-> 0]
    /\ stopReturned' = FALSE
    /\ UNCHANGED <<hasCreds, fundWatcher, watcherBusy, monitorOf, watchdogTimer>>

\* checkFunding() of start() resolves: not funded starts the fund watcher and
\* returns, funded goes on to proceedWithPostFundingSetup
FundingReturn ==
    \E isFunded \in BOOLEAN :
        /\ setup.pc = "funding"
        /\ IF isFunded
           THEN /\ setup' = AfterAwait(engineOn, ProceedWithPostFundingSetup)
                /\ UNCHANGED fundWatcher
           ELSE /\ setup' = NoSetup
                /\ fundWatcher' = IF AfterAwait(engineOn, "live") = "live"
                                  THEN "live" ELSE fundWatcher
        /\ UNCHANGED <<engineOn, hasCreds, watcherBusy, monitorOf, watchdogTimer,
                       stopReturned>>

\* the setInterval callback of startFundWatcher
FundWatcherFire ==
    /\ fundWatcher = "live"
    /\ ~watcherBusy
    /\ setup.pc = "idle"
    /\ IF ~engineOn
       THEN /\ fundWatcher' = "cleared"
            /\ UNCHANGED watcherBusy
       ELSE /\ watcherBusy' = TRUE
            /\ UNCHANGED fundWatcher
    /\ UNCHANGED <<engineOn, hasCreds, setup, monitorOf, watchdogTimer, stopReturned>>

\* checkFunding() of the fund watcher resolves
FundWatcherReturn ==
    \E funded \in BOOLEAN :
        /\ watcherBusy
        /\ watcherBusy' = FALSE
        /\ IF funded
           THEN /\ fundWatcher' = "undefined"
                /\ setup' = AfterAwait(engineOn, ProceedWithPostFundingSetup)
           ELSE UNCHANGED <<fundWatcher, setup>>
        /\ UNCHANGED <<engineOn, hasCreds, monitorOf, watchdogTimer, stopReturned>>

\* activateOnChain() resolves (its own catch swallows errors): stored
\* credentials are used, or the handshake begins
ActivateReturn ==
    /\ setup.pc = "activate"
    /\ setup' = AfterAwait(engineOn,
                           IF hasCreds THEN [pc |-> "allowance", attempt |-> 0]
                           ELSE [pc |-> "handshake", attempt |-> 1])
    /\ UNCHANGED <<engineOn, hasCreds, fundWatcher, watcherBusy, monitorOf,
                   watchdogTimer, stopReturned>>

\* createOrDeriveApiKey() resolves with keys, or rejects: a rejection is
\* retried up to the third attempt, then the catch of the setup sets
\* isRunning = false
HandshakeReturn ==
    \E ok \in BOOLEAN :
        /\ setup.pc = "handshake"
        /\ IF ok
           THEN \* client built, startServices(): executor, await ensureAllowance()
                /\ setup' = AfterAwait(engineOn, [pc |-> "allowance", attempt |-> 0])
                /\ UNCHANGED engineOn
           ELSE IF setup.attempt < HandshakeAttempts
                THEN /\ setup' = AfterAwait(engineOn,
                                            [setup EXCEPT !.attempt = @ + 1])
                     /\ UNCHANGED engineOn
                ELSE /\ setup' = NoSetup
                     /\ engineOn' = FALSE
        /\ UNCHANGED <<hasCreds, fundWatcher, watcherBusy, monitorOf, watchdogTimer,
                       stopReturned>>

\* ensureAllowance() resolves or rejects (caught): the monitor is built and
\* await this.monitor.start(startCursor) begins
AllowanceReturn ==
    /\ setup.pc = "allowance"
    /\ setup' = AfterAwait(engineOn, [pc |-> "monitor", attempt |-> 0])
    /\ monitorOf' = IF AfterAwait(engineOn, "started") = "started"
                    THEN "started" ELSE monitorOf
    /\ UNCHANGED <<engineOn, hasCreds, fundWatcher, watcherBusy, watchdogTimer,
                   stopReturned>>

\* monitor.start() resolves: this.watchdogTimer = setInterval(checkAutoTp, 10000)
MonitorStartReturn ==
    /\ setup.pc = "monitor"
    /\ setup' = NoSetup
    /\ watchdogTimer' = IF AfterAwait(engineOn, "live") = "live"
                        THEN "live" ELSE watchdogTimer
    /\ UNCHANGED <<engineOn, hasCreds, fundWatcher, watcherBusy, monitorOf,
                   stopReturned>>

\* stop(): isRunning = false, monitor.stop(), both intervals cleared
BotStop ==
    /\ engineOn' = FALSE
    /\ monitorOf' = IF monitorOf = "undefined" THEN monitorOf ELSE "stopped"
    /\ fundWatcher' = IF fundWatcher = "undefined" THEN fundWatcher ELSE "cleared"
    /\ watchdogTimer' = IF watchdogTimer = "undefined" THEN watchdogTimer ELSE "cleared"
    /\ stopReturned' = TRUE
    /\ UNCHANGED <<hasCreds, setup, watcherBusy>>

\* the engine as constructed, with or without stored credentials
BootInitWith(creds) ==
    /\ engineOn = FALSE
    /\ hasCreds = creds
    /\ setup = NoSetup
    /\ fundWatcher = "undefined"
    /\ watcherBusy = FALSE
    /\ monitorOf = "undefined"
    /\ watchdogTimer = "undefined"
    /\ stopReturned = FALSE

\* an engine whose config holds no credentials
BootInit == BootInitWith(FALSE)

(***************************************************************************)
(* TradeExecutorService.getTraderBalance                                   *)
(***************************************************************************)
CACHE_TTL == 5 * 60 * 1000
NoEntry == [value |-> 0, timestamp |-> -1]
IdleBalance == [pc |-> "idle", trader |-> "none"]
BalanceEvent(kind, trader, value) == [kind |-> kind, trader |-> trader, value |-> value]

\* variant: an entry exactly CACHE_TTL old is still served
CachedFreshInclusive(cached, t) == cached # NoEntry /\ t - cached.timestamp <= CACHE_TTL

\* cached && (Date.now() - cached.timestamp < this.CACHE_TTL)
CachedFresh(cached, t) == cached # NoEntry /\ t - cached.timestamp < CACHE_TTL

\* variant: the fetched total is stored as it is
BalanceUnfloored(totalValue) == totalValue

\* Math.max(1000, totalValue)
BalanceFloor(totalValue) == IF totalValue > 1000 THEN totalValue ELSE 1000

\* getTraderBalance(trader) up to its first await: a fresh entry is returned,
\* otherwise the positions request goes out
GetTraderBalance ==
    \E c \in BalanceCalls, trader \in Traders :
        /\ balanceCalls[c].pc = "idle"
        /\ IF CachedFresh(balanceCache[trader], cacheNow)
           THEN /\ lastBalance' = BalanceEvent("cached", trader, balanceCache[trader].value)
                /\ UNCHANGED balanceCalls
           ELSE /\ lastBalance' = BalanceEvent("request", trader, 0)
                /\ balanceCalls' = [balanceCalls EXCEPT
                                       ![c] = [pc |-> "fetching", trader |-> trader]]
        /\ UNCHANGED <<cacheNow, balanceCache>>

\* httpGet resolves: the floored total is stored with the current time and returned
BalanceFetched ==
    \E c \in BalanceCalls, totalValue \in TotalValues :
        /\ balanceCalls[c].pc = "fetching"
        /\ balanceCache' = [balanceCache EXCEPT ![balanceCalls[c].trader] =
                               [value |-> BalanceFloor(totalValue), timestamp |-> cacheNow]]
        /\ lastBalance' = BalanceEvent("fetched", balanceCalls[c].trader,
                                       BalanceFloor(totalValue))
                             @@ [total |-> totalValue]
        /\ balanceCalls' = [balanceCalls EXCEPT ![c] = IdleBalance]
        /\ UNCHANGED cacheNow

\* httpGet rejects: catch { return 10000 }, nothing is stored
BalanceFetchFailed ==
    \E c \in BalanceCalls :
        /\ balanceCalls[c].pc = "fetching"
        /\ lastBalance' = BalanceEvent("default", balanceCalls[c].trader, 10000)
        /\ balanceCalls' = [balanceCalls EXCEPT ![c] = IdleBalance]
        /\ UNCHANGED <<cacheNow, balanceCache>>

\* time passes
CacheClockAdvance ==
    \E t \in CacheTimes :
        /\ t > cacheNow
        /\ cacheNow' = t
        /\ lastBalance' = BalanceEvent("none", "none", 0)
        /\ UNCHANGED <<balanceCache, balanceCalls>>

CacheInit ==
    /\ cacheNow = 0
    /\ balanceCache = [t \in Traders |-> NoEntry]
    /\ balanceCalls = [c \in BalanceCalls |-> IdleBalance]
    /\ lastBalance = BalanceEvent("none", "none", 0)

(***************************************************************************)
(* Two accounts: per-instance state and the alphaRegistry singleton        *)
(***************************************************************************)
\* a monitor, an executor and no fee distributor yet
NewAccount ==
    [processedHashes |-> {}, lastFetchTime |-> 0, balanceCache |-> 0,
     pendingSpend |-> 0, feeDistributor |-> FALSE, lookupUrl |-> "none"]

\* new FeeDistributorService(wallet, env, logger):
\* if (env.registryApiUrl) alphaRegistry.setApiUrl(env.registryApiUrl)
FeeDistributorConstruct ==
    \E a \in Accounts, registryApiUrl \in RegistryUrls :
        /\ ~accounts[a].feeDistributor
        /\ apiUrl' = IF registryApiUrl # "" THEN registryApiUrl ELSE apiUrl
        /\ accounts' = [accounts EXCEPT ![a].feeDistributor = TRUE]
        /\ lastAccountOp' = a

\* distributeFeesOnProfit: alphaRegistry.getListerForWallet requests
\* `${this.apiUrl}/registry/${walletAddress}`
AccountListerLookup ==
    \E a \in Accounts :
        /\ accounts[a].feeDistributor
        /\ accounts' = [accounts EXCEPT ![a].lookupUrl = apiUrl]
        /\ lastAccountOp' = a
        /\ UNCHANGED apiUrl

\* fetchTraderActivities of the account's monitor records an identity
AccountRecord ==
    \E a \in Accounts, key \in AccountKeys, t \in AccountTimes :
        /\ key \notin accounts[a].processedHashes
        /\ accounts' = [accounts EXCEPT
                          ![a].processedHashes = @ \cup {key},
                          ![a].lastFetchTime = Max(@, t)]
        /\ lastAccountOp' = a
        /\ UNCHANGED apiUrl

\* getTraderBalance of the account's executor stores a fetched balance
AccountBalanceFetched ==
    \E a \in Accounts, totalValue \in TotalValues :
        /\ accounts' = [accounts EXCEPT ![a].balanceCache = BalanceFloor(totalValue)]
        /\ lastAccountOp' = a
        /\ UNCHANGED apiUrl

\* copyTrade of the account's executor fills a BUY: this.pendingSpend += ...
AccountBuyFilled ==
    \E a \in Accounts :
        /\ accounts[a].pendingSpend < MaxAccountSpend
        /\ accounts' = [accounts EXCEPT ![a].pendingSpend = @ + 1]
        /\ lastAccountOp' = a
        /\ UNCHANGED apiUrl

\* export const alphaRegistry = new AlphaRegistryService()
AcctInit ==
    /\ apiUrl = "http://localhost:3000/api"
    /\ accounts = [a \in Accounts |-> NewAccount]
    /\ lastAccountOp = "none"

(***************************************************************************)
(* BotEngine.activePositions: onDetectedTrade and checkAutoTp              *)
(***************************************************************************)
IdleTp == [pc |-> "idle", snap |-> <<>>, i |-> 0, gain |-> 0]
\* what a step did to the position book: the token concerned, the watchdog
\* run that took it, how much of the position an exit sold, the callbacks
\* the step called and the position handed to executeManualExit
PosEvent(kind, tokenId) ==
    [kind |-> kind, tokenId |-> tokenId, run |-> 0, fill |-> "none",
     callbacks |-> {}, exitOf |-> 0]

\* variant: only the position examined is removed
RemoveOne(positions, pos) == SelectSeq(positions, LAMBDA p : p # pos)

\* this.activePositions.filter(p => p.tokenId !== pos.tokenId)
RemoveToken(positions, pos) == SelectSeq(positions, LAMBDA p : p.tokenId # pos.tokenId)

\* what executeManualExit returns for the result of adapter.createOrder: true
\* when result.success, whatever result.sharesFilled; false otherwise, and
\* false when the adapter threw
ExecuteManualExit(result) == result.success

\* const realPnl = pos.sizeUsd * (gainPercent / 100), in cents
RealPnl(pos, gainPercent) == pos.sizeUsd * gainPercent

\* onDetectedTrade after copyTrade has resolved with size: a BUY of size > 0
\* pushes a position
TradeExecuted ==
    \E side \in Sides, tokenId \in TokenIds, size \in ExecutedSizes :
        /\ pushed < MaxPositions
        /\ IF size > 0 /\ side = "BUY"
           THEN /\ activePositions' = Append(activePositions,
                                             [tokenId |-> tokenId, id |-> pushed + 1,
                                              sizeUsd |-> size])
                /\ pushed' = pushed + 1
           ELSE UNCHANGED <<activePositions, pushed>>
        /\ lastPosEvent' = [PosEvent("trade", tokenId) EXCEPT !.kind =
                                IF size = 0 THEN "not_executed"
                                ELSE IF side = "BUY" THEN "buy" ELSE "sell"]
        /\ UNCHANGED <<tpRuns, totalPnl, exitCalls>>

\* variant: the pass ends with the position it has just handled
TpEndPass(r) == tpRuns' = [tpRuns EXCEPT ![r] = IdleTp]

\* the for-loop of checkAutoTp moves to its next position, or the run ends
TpNext(r) ==
    IF tpRuns[r].i < Len(tpRuns[r].snap)
    THEN tpRuns' = [tpRuns EXCEPT ![r].i = @ + 1, ![r].pc = "market", ![r].gain = 0]
    ELSE tpRuns' = [tpRuns EXCEPT ![r] = IdleTp]

\* the position a run is examining
TpPos(r) == tpRuns[r].snap[tpRuns[r].i]

\* checkAutoTp(): returns when there is no position, otherwise copies the
\* array and awaits getMarket of the first position
TpBegin ==
    \E r \in TpRuns :
        /\ tpRuns[r].pc = "idle"
        /\ \A q \in TpRuns : q < r => tpRuns[q].pc # "idle"
        /\ Len(activePositions) > 0
        /\ tpRuns' = [tpRuns EXCEPT ![r] =
                         [pc |-> "market", snap |-> activePositions, i |-> 1,
                          gain |-> 0]]
        /\ lastPosEvent' = PosEvent("watchdog", "none")
        /\ UNCHANGED <<activePositions, pushed, totalPnl, exitCalls>>

\* getMarket resolves: a closed market removes the token's positions;
\* otherwise the book is fetched; a rejection skips the position
TpMarket ==
    \E r \in TpRuns, outcome \in {"closed", "open", "error"} :
        /\ tpRuns[r].pc = "market"
        /\ CASE outcome = "closed" ->
                   /\ activePositions' = RemoveToken(activePositions, TpPos(r))
                   /\ lastPosEvent' = [PosEvent("closed", TpPos(r).tokenId) EXCEPT
                                          !.run = r, !.callbacks = {"positions"}]
                   /\ TpNext(r)
             [] outcome = "open" ->
                   /\ tpRuns' = [tpRuns EXCEPT ![r].pc = "book"]
                   /\ lastPosEvent' = PosEvent("watchdog", "none")
                   /\ UNCHANGED activePositions
             [] OTHER ->
                   /\ TpNext(r)
                   /\ lastPosEvent' = PosEvent("watchdog", "none")
                   /\ UNCHANGED activePositions
        /\ UNCHANGED <<pushed, totalPnl, exitCalls>>

\* getOrderBook resolves: with a best bid at or above the take-profit gain
\* executeManualExit is called; otherwise (or on a rejection) the next position
TpBook ==
    \E r \in TpRuns, gainPercent \in GainPercents :
        /\ tpRuns[r].pc = "book"
        /\ IF gainPercent >= AutoTp
           THEN /\ tpRuns' = [tpRuns EXCEPT ![r].pc = "exit", ![r].gain = gainPercent]
                /\ exitCalls' = [exitCalls EXCEPT ![TpPos(r).id] = Min(@ + 1, 2)]
                /\ lastPosEvent' = [PosEvent("exit_called", TpPos(r).tokenId) EXCEPT
                                       !.run = r, !.exitOf = TpPos(r).id]
           ELSE /\ TpNext(r)
                /\ lastPosEvent' = PosEvent("watchdog", "none")
                /\ UNCHANGED exitCalls
        /\ UNCHANGED <<activePositions, pushed, totalPnl>>

\* adapter.createOrder of executeManualExit resolves or throws: on success
\* the token's positions are removed and the gain on the position credited
TpExit ==
    \E r \in TpRuns, result \in ExitResults :
        /\ tpRuns[r].pc = "exit"
        /\ IF ExecuteManualExit(result)
           THEN /\ activePositions' = RemoveToken(activePositions, TpPos(r))
                /\ totalPnl' = totalPnl + RealPnl(TpPos(r), tpRuns[r].gain)
                /\ lastPosEvent' = [PosEvent("exit", TpPos(r).tokenId) EXCEPT
                                       !.run = r, !.fill = result.fill,
                                       !.callbacks = {"positions", "stats"},
                                       !.exitOf = TpPos(r).id]
           ELSE /\ lastPosEvent' = [PosEvent("exit_failed", TpPos(r).tokenId) EXCEPT
                                       !.run = r, !.exitOf = TpPos(r).id]
                /\ UNCHANGED <<activePositions, totalPnl>>
        /\ TpNext(r)
        /\ UNCHANGED <<pushed, exitCalls>>

PosInit ==
    /\ activePositions = <<>>
    /\ tpRuns = [r \in TpRuns |-> IdleTp]
    /\ pushed = 0
    /\ totalPnl = 0
    /\ exitCalls = [id \in 1..MaxPositions |-> 0]
    /\ lastPosEvent = PosEvent("none", "none")

(***************************************************************************)
(* TradeExecutorService.copyTrade and PolymarketAdapter.createOrder        *)
(***************************************************************************)
NoOrder == [side |-> "none"]
NoResult == [status |-> "none"]
IdleProc == [pc |-> "idle", side |-> "BUY", price |-> RInt(0), sizeUsd |-> RInt(0),
             usable |-> RInt(0), traderBalance |-> RInt(0),
             target |-> RInt(0), priceLimit |-> RInt(0),
             remaining |-> RInt(0), retryCount |-> 0, filled |-> FALSE,
             health |-> "none",
             \* history of the sweep in progress
             tried |-> FALSE,        \* an order has been submitted
             emptyFirst |-> FALSE,   \* its first attempt found the book empty
             submitted |-> RInt(0),  \* USD value of the accepted orders
             slack |-> RInt(0),      \* 0.01 share, in USD, per accepted order
             shares |-> RInt(0),     \* shares of the accepted orders
             lastError |-> ""]       \* message of the latest rejection or error

\* failResult(reason, status) and the other result literals of copyTrade
Result(p, status, reason) ==
    [proc |-> p, status |-> status, reason |-> reason,
     executedAmount |-> RInt(0), executedShares |-> RInt(0),
     thrown |-> ""]    \* history: the message of the exception caught, if any

\* variant: the catch logs and throws again
CaughtRethrown(p, errorMessage) ==
    [Result(p, "THROWN", errorMessage) EXCEPT !.thrown = errorMessage]

\* the catch of copyTrade: FAILED, zero amounts, reason: errorMessage
Caught(p, errorMessage) ==
    [Result(p, "FAILED", errorMessage) EXCEPT !.thrown = errorMessage]

\* variant: LOW and CRITICAL ranked alike
RankLowIsCritical(h) == CASE h = "HIGH" -> 3 [] h = "MEDIUM" -> 2 [] OTHER -> 0

\* ranks of the PRE-FLIGHT LIQUIDITY GUARD
Rank(h) == CASE h = "HIGH" -> 3 [] h = "MEDIUM" -> 2 [] h = "LOW" -> 1 [] OTHER -> 0

\* (this.deps.env as any).minLiquidityFilter || 'LOW'
MinLiquidityFilter == "LOW"

\* usableBalanceForTrade = Math.max(0, chainBalance - this.pendingSpend)
UsableBalance(chain, pending) == RMax(RInt(0), RSub(chain, pending))

\* sizing.targetUsdSize < 1.00 || sizing.targetShares < minOrderSize, where a
\* field the sizing object does not carry reads as undefined and
\* undefined < minOrderSize is false
SizingRejected(sizing, minOrderSize) ==
    \/ RLt(sizing.targetUsdSize, RInt(1))
    \/ /\ "targetShares" \in DOMAIN sizing
       /\ RLt(sizing["targetShares"], minOrderSize)

\* variant: 10% slippage allowed on BUY, 20% on SELL
PriceLimitLoose(side, price) ==
    IF side = "BUY"
    THEN RMin(RMul(price, Rat(11, 10)), Rat(99, 100))
    ELSE RMax(RMul(price, Rat(8, 10)), Rat(1, 1000))

\* priceLimit of copyTrade: signal.price * 1.05 capped at 0.99 for BUY,
\* signal.price * 0.90 floored at 0.001 for SELL
PriceLimit(side, price) ==
    IF side = "BUY"
    THEN RMin(RMul(price, RAdd(RInt(1), Rat(5, 100))), Rat(99, 100))
    ELSE RMax(RMul(price, RSub(RInt(1), Rat(10, 100))), Rat(1, 1000))

\* variant: the limit protects only a SELL
BreachesSellOnly(side, priceLimit, levelPrice) ==
    /\ priceLimit.n # 0
    /\ side # "BUY" /\ RLt(levelPrice, priceLimit)

\* Price Protection of the sweep: the level breaches the limit
\*   isBuy && params.priceLimit && levelPrice > params.priceLimit
\*   !isBuy && params.priceLimit && levelPrice < params.priceLimit
Breaches(side, priceLimit, levelPrice) ==
    /\ priceLimit.n # 0
    /\ IF side = "BUY" THEN RLt(priceLimit, levelPrice) ELSE RLt(levelPrice, priceLimit)

\* variant: every successful submission is added, SELL included
PendingAfterAnySide(pending, side, target) == RAdd(pending, target)

\* if (signal.side === 'BUY') this.pendingSpend += sizing.targetUsdSize
PendingAfter(pending, side, target) ==
    IF side = "BUY" THEN RAdd(pending, target) ELSE pending

\* const maxRetries = 3
MaxRetries == 3

\* variant: the budget test lets one more attempt through
SweepGoesOnOneMore(remaining, retryCount) ==
    RLt(Rat(1, 2), remaining) /\ retryCount <= MaxRetries

\* while (remaining > 0.50 && retryCount < maxRetries)
SweepGoesOn(remaining, retryCount) ==
    RLt(Rat(1, 2), remaining) /\ retryCount < MaxRetries

\* the build under dist-node: while (remaining >= 0.50 && retryCount < maxRetries)
SweepGoesOnJs(remaining, retryCount) ==
    RLe(Rat(1, 2), remaining) /\ retryCount < MaxRetries

\* the loop condition of createOrder in the given build of the adapter
LoopGoesOn(build, remaining, retryCount) ==
    IF build = "js" THEN SweepGoesOnJs(remaining, retryCount)
    ELSE SweepGoesOn(remaining, retryCount)

\* result.success of the OrderResult createOrder resolves with: some
\* fill-or-kill order of the sweep was accepted
OrderSuccess(filled) == filled

\* result.error of the OrderResult createOrder resolves with: the message of
\* the latest rejection or error of the sweep
OrderError(lastError) == lastError

\* reason: result.error || 'Unknown error'
FailedReason(error) == IF error = "" THEN "Unknown error" ELSE error

\* what a finished sweep did, kept with the result of its copyTrade: pr is the
\* execution after the last iteration, endedEmpty tells that the last
\* iteration found the book empty
SweepInfo(pr, endedEmpty) ==
    [filled |-> pr.filled, tried |-> pr.tried, emptyFirst |-> pr.emptyFirst,
     endedEmpty |-> endedEmpty, retryCount |-> pr.retryCount, target |-> pr.target,
     submitted |-> pr.submitted, residual |-> pr.remaining, slack |-> pr.slack,
     shares |-> pr.shares, lastError |-> pr.lastError]

\* an ExecutionResult of copyTrade together with the account of its sweep
SweepResult(p, result, info) == result @@ [sweep |-> info]

\* result.sharesFilled and result.sharesFilled * result.priceFilled of the
\* OrderResult createOrder resolves with: the accepted orders of the sweep
OrderSharesFilled(info) == info.shares
OrderAmountFilled(info) == info.submitted

\* the FILLED literal of copyTrade
Filled(p, info) ==
    [Result(p, "FILLED", "executed") EXCEPT
        !.executedAmount = OrderAmountFilled(info),
        !.executedShares = OrderSharesFilled(info)]

\* createOrder has returned (thrown = "") or thrown an error with the given
\* message; copyTrade maps the outcome to its ExecutionResult and accounts a
\* successful BUY
FinishOrder(p, pr, endedEmpty, thrown) ==
    LET success == thrown = "" /\ OrderSuccess(pr.filled)
        info == SweepInfo(pr, endedEmpty)
    IN /\ procs' = [procs EXCEPT ![p] = IdleProc]
       /\ IF success
          THEN /\ pendingSpend' = PendingAfter(pendingSpend, pr.side, pr.target)
               /\ unsettled' = IF pr.side = "BUY" THEN RAdd(unsettled, pr.target)
                                ELSE unsettled
               /\ lastResult' = SweepResult(p, Filled(p, info), info)
          ELSE /\ UNCHANGED <<pendingSpend, unsettled>>
               /\ lastResult' = SweepResult(p,
                                     IF thrown # "" THEN Caught(p, thrown)
                                     ELSE Result(p, "FAILED",
                                                 FailedReason(OrderError(pr.lastError))),
                                     info)

\* copyTrade(signal) up to its first adapter await that reads shared state:
\* the liquidity guard, then fetchBalance (BUY) or getPositions (SELL) issued
CopyTradeBegin(slots, prices, sizes, healths) ==
    \E p \in slots, side \in Sides, price \in prices, size \in sizes,
       health \in healths :
        /\ started < MaxSignals
        /\ procs[p].pc = "idle"
        /\ \A q \in slots : q < p => procs[q].pc # "idle"
        /\ started' = started + 1
        /\ lastOrder' = NoOrder
        /\ IF Rank(health) < Rank(MinLiquidityFilter)
           THEN /\ lastResult' = Result(p, "ILLIQUID", "insufficient_liquidity")
                /\ procs' = [procs EXCEPT ![p] = [IdleProc EXCEPT !.health = health]]
           ELSE /\ lastResult' = NoResult
                /\ procs' = [procs EXCEPT ![p] =
                                [IdleProc EXCEPT !.pc = "bal", !.side = side,
                                                 !.price = price, !.sizeUsd = size,
                                                 !.health = health]]
        /\ UNCHANGED <<pendingSpend, tradeMultiplier, chainBalance, unsettled>>

\* BUY: adapter.fetchBalance(proxyWallet) resolves
BalanceReturn ==
    \E p \in Procs :
        /\ procs[p].pc = "bal" /\ procs[p].side = "BUY"
        /\ procs' = [procs EXCEPT ![p].pc = "size",
                                  ![p].usable = UsableBalance(chainBalance, pendingSpend)]
        /\ lastOrder' = NoOrder
        /\ lastResult' = NoResult
        /\ UNCHANGED <<pendingSpend, tradeMultiplier, chainBalance, started, unsettled>>

\* SELL: adapter.getPositions(proxyWallet) resolves
PositionsReturn ==
    \E p \in Procs, held \in BOOLEAN, value \in PositionValues :
        /\ procs[p].pc = "bal" /\ procs[p].side = "SELL"
        /\ lastOrder' = NoOrder
        /\ IF held
           THEN /\ procs' = [procs EXCEPT ![p].pc = "size", ![p].usable = value]
                /\ lastResult' = NoResult
           ELSE /\ procs' = [procs EXCEPT ![p] = IdleProc]
                /\ lastResult' = Result(p, "SKIPPED", "no_position_to_sell")
        /\ UNCHANGED <<pendingSpend, tradeMultiplier, chainBalance, started, unsettled>>

\* copyTrade(signal) whose getLiquidityMetrics rejects: caught, FAILED
LiquidityThrow ==
    \E p \in Procs, message \in ErrorMessages :
        /\ started < MaxSignals
        /\ procs[p].pc = "idle"
        /\ \A q \in Procs : q < p => procs[q].pc # "idle"
        /\ started' = started + 1
        /\ lastOrder' = NoOrder
        /\ lastResult' = Caught(p, message)
        /\ UNCHANGED <<pendingSpend, tradeMultiplier, chainBalance, procs, unsettled>>

\* an adapter call of copyTrade rejects before the order (fetchBalance,
\* getPositions, getOrderBook): caught, FAILED
AdapterThrow ==
    \E p \in Procs, message \in ErrorMessages :
        /\ procs[p].pc \in {"bal", "size"}
        /\ procs' = [procs EXCEPT ![p] = IdleProc]
        /\ lastOrder' = NoOrder
        /\ lastResult' = Caught(p, message)
        /\ UNCHANGED <<pendingSpend, tradeMultiplier, chainBalance, started, unsettled>>

\* getTraderBalance and getOrderBook have resolved: sizing, the sizing gate,
\* the price limit, and createOrder called
SizeAndSubmit ==
    \E p \in Procs, traderBalance \in TraderBalances :
        LET pr == procs[p]
            minOrderSize == RInt(5)
            sizing == computeProportionalSizing(
                          [yourUsdBalance |-> pr.usable,
                           traderUsdBalance |-> traderBalance,
                           traderTradeUsd |-> pr.sizeUsd,
                           multiplier |-> tradeMultiplier])
        IN /\ pr.pc = "size"
           /\ lastOrder' = NoOrder
           /\ IF SizingRejected(sizing, minOrderSize)
              THEN /\ procs' = [procs EXCEPT ![p] = IdleProc]
                   /\ lastResult' = Result(p, "SKIPPED",
                                           IF RLt(pr.usable, RInt(1))
                                           THEN "skipped_insufficient_balance_min_1"
                                           ELSE "skipped_size_too_small")
              ELSE /\ procs' = [procs EXCEPT ![p].pc = "sweep",
                                             ![p].traderBalance = traderBalance,
                                             ![p].target = sizing.targetUsdSize,
                                             ![p].priceLimit = PriceLimit(pr.side, pr.price),
                                             ![p].remaining = sizing.targetUsdSize,
                                             ![p].retryCount = 0,
                                             ![p].filled = FALSE]
                   \* (the history fields start from those of IdleProc)
                   /\ lastResult' = NoResult
           /\ UNCHANGED <<pendingSpend, tradeMultiplier, chainBalance, started, unsettled>>

\* one iteration of the sweep loop of createOrder whose book is empty
SweepEmptyBook ==
    \E p \in Procs :
        /\ procs[p].pc = "sweep"
        /\ lastOrder' = NoOrder
        \* if (retryCount === 0) throw new Error("No liquidity in orderbook"); break
        /\ FinishOrder(p, [procs[p] EXCEPT !.emptyFirst = ~procs[p].tried
                                                           /\ procs[p].retryCount = 0],
                       TRUE,
                       IF procs[p].retryCount = 0 THEN "No liquidity in orderbook"
                       ELSE "")
        /\ UNCHANGED <<tradeMultiplier, chainBalance, started>>

\* getOrderBook of an iteration of the sweep rejects: the call is outside the
\* try of the loop, the error leaves createOrder and copyTrade catches it
SweepThrow ==
    \E p \in Procs, message \in ErrorMessages :
        /\ procs[p].pc = "sweep"
        /\ lastOrder' = NoOrder
        /\ FinishOrder(p, procs[p], FALSE, message)
        /\ UNCHANGED <<tradeMultiplier, chainBalance, started>>

\* the same iteration in the build under dist-node, where the whole iteration
\* is inside the try: the throw of the first attempt is caught by the loop's
\* own catch (retryCount++), and the loop goes on
SweepEmptyBookCaught ==
    \E p \in Procs :
        LET pr == procs[p]
            pr1 == [pr EXCEPT !.retryCount = pr.retryCount + 1,
                              !.emptyFirst = pr.emptyFirst \/ ~pr.tried,
                              !.lastError = "No liquidity in orderbook"]
        IN /\ pr.pc = "sweep"
           /\ lastOrder' = NoOrder
           /\ IF pr.retryCount = 0
              THEN IF LoopGoesOn("js", pr1.remaining, pr1.retryCount)
                   THEN /\ procs' = [procs EXCEPT ![p] = pr1]
                        /\ lastResult' = NoResult
                        /\ UNCHANGED <<pendingSpend, unsettled>>
                   ELSE FinishOrder(p, pr1, TRUE, "")
              ELSE \* break
                   FinishOrder(p, pr, TRUE, "")
           /\ UNCHANGED <<tradeMultiplier, chainBalance, started>>

\* one iteration of the sweep loop of createOrder on a non-empty book
SweepLevel(build, levels, responses) ==
    \E p \in Procs, level \in levels, response \in responses :
        LET pr == procs[p]
            levelValue == RMul(level.size, level.price)
            orderValue == RMin(pr.remaining, levelValue)
            orderSize == RFloor2(RDiv(orderValue, level.price))
            remaining1 == IF response = "ok" THEN RSub(pr.remaining, orderValue)
                          ELSE pr.remaining
            retry1 == IF response = "ok" THEN 0 ELSE pr.retryCount + 1
            filled1 == pr.filled \/ response = "ok"
            pr1 == [pr EXCEPT
                      !.remaining = remaining1,
                      !.retryCount = retry1,
                      !.filled = filled1,
                      !.tried = TRUE,
                      !.submitted = IF response = "ok"
                                    THEN RAdd(pr.submitted, RMul(orderSize, level.price))
                                    ELSE pr.submitted,
                      !.shares = IF response = "ok" THEN RAdd(pr.shares, orderSize)
                                 ELSE pr.shares,
                      !.slack = IF response = "ok"
                                THEN RAdd(pr.slack, RMul(Rat(1, 100), level.price))
                                ELSE pr.slack,
                      !.lastError = IF response = "ok" THEN pr.lastError ELSE response]
        IN /\ pr.pc = "sweep"
           /\ IF Breaches(pr.side, pr.priceLimit, level.price) \/ orderSize.n <= 0
              THEN \* break
                   /\ lastOrder' = NoOrder
                   /\ FinishOrder(p, pr, FALSE, "")
              ELSE /\ lastOrder' = [side |-> pr.side, price |-> level.price,
                                    size |-> orderSize, signalPrice |-> pr.price,
                                    accepted |-> response = "ok"]
                   /\ IF LoopGoesOn(build, remaining1, retry1)
                      THEN /\ procs' = [procs EXCEPT ![p] = pr1]
                           /\ lastResult' = NoResult
                           /\ UNCHANGED <<pendingSpend, unsettled>>
                      ELSE FinishOrder(p, pr1, FALSE, "")
           /\ UNCHANGED <<tradeMultiplier, chainBalance, started>>

\* the chain catches up: the balance it reports now reflects the BUYs made
Settle ==
    /\ unsettled.n > 0
    /\ chainBalance' = RMax(RInt(0), RSub(chainBalance, unsettled))
    /\ unsettled' = RInt(0)
    /\ lastOrder' = NoOrder
    /\ lastResult' = NoResult
    /\ UNCHANGED <<pendingSpend, tradeMultiplier, procs, started>>

ExecInitFrom(balances) ==
    /\ pendingSpend = RInt(0)
    /\ tradeMultiplier \in Multipliers
    /\ chainBalance \in balances
    /\ procs = [p \in Procs |-> IdleProc]
    /\ started = 0
    /\ unsettled = RInt(0)
    /\ lastOrder = NoOrder
    /\ lastResult = NoResult

ExecInit == ExecInitFrom(ChainBalances)

\* the steps of a copyTrade execution after its first and before its sweep
PreSweepSteps ==
    \/ BalanceReturn
    \/ PositionsReturn
    \/ LiquidityThrow
    \/ AdapterThrow
    \/ SizeAndSubmit

\* the same, and the iterations of the sweep that place no order
CopyTradeSteps ==
    \/ PreSweepSteps
    \/ SweepEmptyBook
    \/ SweepThrow

MonInit ==
    /\ now \in {CHOOSE t \in Times : \A u \in Times : t <= u}
    /\ processedHashes = <<>>
    /\ lastFetchTime = <<>>
    /\ isPolling = FALSE
    /\ timer = "undefined"
    /\ orphanTimers = FALSE
    /\ ticks = [s \in Slots |-> FreeTick]
    /\ isRunning = FALSE
    /\ startCursor \in StartCursors
    /\ monState = "none"
    /\ emitted = {}
    /\ dupEmitted = FALSE
    /\ delivered = {}
    /\ dupDelivered = FALSE
    /\ evicted = {}
    /\ seenAfterEvict = FALSE
    /\ failedFetch = {}

\* the first start() of the engine
FirstStart == monState = "none" /\ EngineStart

\* the steps of the ticks of a monitor
TickSteps ==
    \/ TimerFire
    \/ FetchReturn
    \/ FetchFail
    \/ HandlerAwaitsCallback
    \/ HandlerReturn
    \/ HandlerThrow

\* the steps of one monitor once it exists
MonitorSteps ==
    \/ TickSteps
    \/ EngineStop
    \/ ClockAdvance

Init == MonInit /\ ExecInit /\ SizInit /\ FeeInit /\ FundInit /\ PosInit /\ CacheInit /\ AcctInit
        /\ BootInit

\* the same with no start cursor configured (the monitor takes no step)
InitNoCursor == Init /\ startCursor = 0

\* one engine run: start(), the life of its monitor, stop()
Next ==
    /\ \/ FirstStart
       \/ MonitorSteps
    /\ UNCHANGED <<execVars, sizVars, feeVars, fundVars, posVars, cacheVars, acctVars, bootVars>>
Spec == Init /\ [][Next]_vars

\* the engine stopped and started again, each start building a new monitor
\* (with no start cursor configured)
NextEngine ==
    /\ \/ EngineStart
       \/ MonitorSteps
    /\ UNCHANGED <<execVars, sizVars, feeVars, fundVars, posVars, cacheVars, acctVars, bootVars>>
SpecEngine == InitNoCursor /\ [][NextEngine]_vars

\* the monitor driven through its own interface, where start() may be called
\* again on the same instance (the clock is held still: overlap of ticks does
\* not depend on it)
NextApi ==
    /\ \/ FirstStart
       \/ MonitorStart
       \/ TickSteps
    /\ UNCHANGED <<execVars, sizVars, feeVars, fundVars, posVars, cacheVars, acctVars, bootVars>>
SpecApi == Init /\ [][NextApi]_vars

\* the executor of one account: copyTrade calls in any interleaving, on a
\* book whose best level is inside or outside the price limit
ExecPrices == {Rat(2, 5)}
ExecHealths == {"CRITICAL", "LOW"}
ExecLevels == {l \in BookLevels : l.price \in {Rat(21, 50), Rat(43, 100)}
                                  /\ l.size = RInt(1000)}
ExecResponses == {"ok", "rejected"}
NextExec ==
    /\ \/ CopyTradeBegin(Procs, ExecPrices, SignalSizes, ExecHealths)
       \/ CopyTradeSteps
       \/ SweepLevel("ts", ExecLevels, ExecResponses)
       \/ Settle
    /\ UNCHANGED <<monVars, sizVars, feeVars, fundVars, posVars, cacheVars, acctVars, bootVars>>
SpecExec == InitNoCursor /\ [][NextExec]_vars

\* one copyTrade at a time, over every signal price, book level and answer
NextSweep ==
    /\ \/ CopyTradeBegin({1}, SignalPrices, SignalSizes, Healths)
       \/ CopyTradeSteps
       \/ SweepLevel("ts", BookLevels, Responses)
       \/ Settle
    /\ UNCHANGED <<monVars, sizVars, feeVars, fundVars, posVars, cacheVars, acctVars, bootVars>>
SpecSweep == InitNoCursor /\ [][NextSweep]_vars

\* a follower with 1000 USDC copying signals of 500 USD at 0.40
ScenarioPrices == {Rat(2, 5)}
ScenarioSizes == {RInt(500)}
ScenarioBalances == {RInt(1000)}
\* asks from 0.42 upwards, shallow and deep
ScenarioLevels == {l \in BookLevels : RLe(Rat(42, 100), l.price)}
InitScenario ==
    /\ MonInit /\ startCursor = 0
    /\ ExecInitFrom(ScenarioBalances)
    /\ SizInit /\ FeeInit /\ FundInit /\ PosInit /\ CacheInit /\ AcctInit /\ BootInit
NextScenario ==
    /\ \/ started < MaxScenarioSignals
          /\ CopyTradeBegin({1}, ScenarioPrices, ScenarioSizes, Healths)
       \/ CopyTradeSteps
       \/ SweepLevel("ts", ScenarioLevels, Responses)
       \/ Settle
    /\ UNCHANGED <<monVars, sizVars, feeVars, fundVars, posVars, cacheVars, acctVars, bootVars>>
SpecScenario == InitScenario /\ [][NextScenario]_vars

\* the same over the createOrder of the build under dist-node
NextSweepJs ==
    /\ \/ CopyTradeBegin({1}, SignalPrices, SignalSizes, Healths)
       \/ PreSweepSteps
       \/ SweepEmptyBookCaught
       \/ SweepLevel("js", BookLevels, Responses)
       \/ Settle
    /\ UNCHANGED <<monVars, sizVars, feeVars, fundVars, posVars, cacheVars, acctVars, bootVars>>
SpecSweepJs == InitNoCursor /\ [][NextSweepJs]_vars

\* computeProportionalSizing applied to every input of its bounded domain
NextSizing == ComputeSizing /\ UNCHANGED <<monVars, execVars, feeVars, fundVars, posVars, cacheVars, acctVars, bootVars>>
SpecSizing == InitNoCursor /\ [][NextSizing]_vars

\* distributeFeesOnProfit called on its own, over every trade id and profit
NextFees ==
    /\ \/ DistributeFeesOnProfit
       \/ DistributeSteps
    /\ UNCHANGED <<monVars, execVars, sizVars, fundVars, posVars, cacheVars, acctVars, bootVars>>
SpecFees == InitNoCursor /\ [][NextFees]_vars

\* distributeFeesOnProfit called by onDetectedTrade, once per SELL signal
NextFeeCaller ==
    /\ \/ OnDetectedSell
       \/ DistributeSteps
    /\ UNCHANGED <<monVars, execVars, sizVars, fundVars, posVars, cacheVars, acctVars, bootVars>>
SpecFeeCaller == InitNoCursor /\ [][NextFeeCaller]_vars

\* the fund check as main calls it, and called with the bypass
NextFund ==
    /\ \/ FundCheckAtStartup
       \/ FundCheckAfterTrade
       \/ FundCheckForced
       \/ FundClockAdvance
    /\ UNCHANGED <<monVars, execVars, sizVars, feeVars, posVars, cacheVars, acctVars, bootVars>>
SpecFund == InitNoCursor /\ [][NextFund]_vars

\* two accounts of one process, each with its own services
NextAccounts ==
    /\ \/ FeeDistributorConstruct
       \/ AccountListerLookup
       \/ AccountRecord
       \/ AccountBalanceFetched
       \/ AccountBuyFilled
    /\ UNCHANGED <<monVars, execVars, sizVars, feeVars, fundVars, cacheVars, posVars, bootVars>>
SpecAccounts == InitNoCursor /\ [][NextAccounts]_vars

\* one engine started and stopped by its owner
NextBoot ==
    /\ \/ BotStart
       \/ FundingReturn
       \/ FundWatcherFire
       \/ FundWatcherReturn
       \/ ActivateReturn
       \/ HandshakeReturn
       \/ AllowanceReturn
       \/ MonitorStartReturn
       \/ BotStop
    /\ UNCHANGED <<monVars, execVars, sizVars, feeVars, fundVars, posVars, cacheVars,
                   acctVars>>
InitBoot ==
    /\ MonInit /\ ExecInit /\ SizInit /\ FeeInit /\ FundInit /\ PosInit /\ CacheInit
    /\ AcctInit
    /\ \E creds \in BOOLEAN : BootInitWith(creds)
    /\ startCursor = 0
SpecBoot == InitBoot /\ [][NextBoot]_vars

\* the trader-balance cache of one executor
NextCache ==
    /\ \/ GetTraderBalance
       \/ BalanceFetched
       \/ BalanceFetchFailed
       \/ CacheClockAdvance
    /\ UNCHANGED <<monVars, execVars, sizVars, feeVars, fundVars, posVars, acctVars, bootVars>>
SpecCache == InitNoCursor /\ [][NextCache]_vars

\* the position book of one engine: executed trades and the watchdog
NextPositions ==
    /\ \/ TradeExecuted
       \/ TpBegin
       \/ TpMarket
       \/ TpBook
       \/ TpExit
    /\ UNCHANGED <<monVars, execVars, sizVars, feeVars, fundVars, cacheVars, acctVars, bootVars>>
SpecPositions == InitNoCursor /\ [][NextPositions]_vars

(***************************************************************************)
(* Properties of the monitor                                               *)
(***************************************************************************)
TicksInFlight == Cardinality({s \in Slots : Running(s)})

\* C1: one monitor instance passes a transaction identity to onDetectedTrade
\* at most once, whatever the feeds return and however the fetches of a batch
\* interleave, also after the identity was evicted from the table.
C1_DedupAtMostOnce == ~dupEmitted

\* the case of C1: an identity was emitted, evicted, and returned by a feed again
C1_Witness == seenAfterEvict /\ evicted \cap emitted # {}

\* C2: for one account no fill is passed to copyTrade more than once, over
\* ticks and engine stop()/start() cycles.
C2_NoDoubleCopy == ~dupDelivered

\* C7: at most one tick() of a monitor is executing at any time.
C7_SingleTick == TicksInFlight <= 1

\* C8: once stop() has returned (and start() has not been called again) no
\* tick begins.
C8_NoTickAfterStop ==
    [][(monState = "stopped" /\ monState' = "stopped")
        => \A s \in Slots : ticks'[s].status = "run" => ticks[s].status = "run"]_vars

FetchEndsQuietly(s, t) ==
    /\ Running(s)
    /\ ticks[s].tr[t].pc = "fetch"
    /\ ticks'[s].status = "free" \/ ticks'[s].tr[t].pc = "done"

\* C23: when the fetch of one trader ends without a signal, as a failed fetch
\* does, the identity table and the high-water marks are unchanged, the other
\* traders in flight in that tick stay in flight, and the tick returns only
\* when all its traders are done, and returns normally (start() goes on to
\* set its interval); every tick that begins fetches every tracked trader of
\* its first chunk, those that failed before included.
C23_FetchFailureContained ==
    [][\A s \in Slots :
          /\ \A t \in Traders :
                FetchEndsQuietly(s, t)
                => /\ processedHashes' = processedHashes
                   /\ lastFetchTime' = lastFetchTime
                   /\ emitted' = emitted
                   /\ \A u \in Traders \ {t} :
                         ticks[s].tr[u].pc \in {"fetch", "handler", "callback"}
                         => /\ ticks'[s].status = "run"
                            /\ ticks'[s].tr[u] = ticks[s].tr[u]
                   /\ (ticks'[s].status = "free" /\ ticks[s].kind = "start")
                         => timer' = "live"
          /\ (ticks[s].status # "run" /\ ticks'[s].status = "run")
                => \A t \in Chunk(0) :
                      ValidTrader(t) => ticks'[s].tr[t].pc = "fetch"]_vars

\* the case of C23: a trader whose fetch failed in an earlier tick is being
\* fetched again, after the other trader of the failed tick gave a signal
C23_Witness ==
    \E s \in Slots, t \in failedFetch :
        /\ Running(s)
        /\ ticks[s].kind = "timer"
        /\ ticks[s].tr[t].pc = "fetch"
        /\ emitted # {}
        /\ t \notin DOMAIN lastFetchTime

\* C24: the trading loop never waits for a persistence callback: while an
\* onTradeComplete or onStatsUpdate call has not returned, the next tick can
\* begin (the interval is set and not locked out) and no signal of the same
\* feed is waiting behind the call.
C24_CallbacksNotAwaited ==
    \A s \in Slots, t \in Traders :
        (Running(s) /\ ticks[s].tr[t].pc = "callback")
        => /\ timer = "live" /\ ~isPolling
           /\ FirstEligible(ticks[s].tr[t].rest, 1, t, ticks[s].cutoff,
                            processedHashes, lastFetchTime) = 0

C4_NoOverspend == RLe(unsettled, chainBalance)

\* a step in which copyTrade of slot p returns FILLED for a BUY
BuyFilled(p) ==
    /\ procs[p].pc = "sweep"
    /\ procs[p].side = "BUY"
    /\ lastResult'.status = "FILLED"
    /\ lastResult'.proc = p

\* C5: pendingSpend changes only in a step that completes a successful BUY
\* submission, and there it grows by the submitted target; every other step
\* (SELL, SKIPPED, ILLIQUID, FAILED, sizing) leaves it unchanged.
C5_PendingSpendFrame ==
    [][/\ \A p \in Procs :
            BuyFilled(p) => pendingSpend' = RAdd(pendingSpend, procs[p].target)
       /\ (\A p \in Procs : ~BuyFilled(p)) => pendingSpend' = pendingSpend]_vars

\* the case of C5: a copyTrade has just returned FILLED and pendingSpend holds
\* the target of a BUY
C5_Witness ==
    /\ pendingSpend.n > 0
    /\ lastResult.status = "FILLED"

\* C6: when copyTrade fetches the chain balance for a BUY, only the BUYs that
\* balance does not yet reflect are subtracted from it.
C6_PendingReconciled ==
    [][\A p \in Procs :
          (procs[p].pc = "bal" /\ procs[p].side = "BUY" /\ procs'[p].pc = "size")
          => procs'[p].usable = UsableBalance(chainBalance, unsettled)]_vars

\* the latest step ended a sweep
SweepEnded == "sweep" \in DOMAIN lastResult

\* what the sweep that just ended left unaccounted: target - accepted - residual
SweepGap == RSub(lastResult.sweep.target,
                 RAdd(lastResult.sweep.submitted, lastResult.sweep.residual))

\* C14: at the end of a sweep the value of the accepted orders plus the
\* residual equals the target, up to the rounding of each accepted order down
\* to 0.01 share.
C14_SweepAccounting ==
    SweepEnded => /\ RLe(RInt(0), SweepGap)
                  /\ RLe(SweepGap, lastResult.sweep.slack)

\* the case of C14: a sweep ended partly filled, with a rounding loss
C14_Witness ==
    /\ SweepEnded
    /\ lastResult.sweep.filled
    /\ RLt(RInt(0), lastResult.sweep.residual)
    /\ RLt(RInt(0), SweepGap)

\* the scale of liquidity health, lowest first
HealthScale == <<"CRITICAL", "LOW", "MEDIUM", "HIGH">>
ScaleIndex(h) == CHOOSE i \in 1..Len(HealthScale) : HealthScale[i] = h

Statuses == {"FILLED", "FAILED", "SKIPPED", "ILLIQUID"}

\* C22: every copyTrade returns a result whose status is FILLED, FAILED,
\* SKIPPED or ILLIQUID; when an adapter call (liquidity metrics, balance,
\* positions, order book, order submission) raised an exception the result is
\* FAILED with executed amount 0, executed shares 0 and the message of the
\* exception as reason.
C22_NeverThrows ==
    lastResult.status # "none"
        => /\ lastResult.status \in Statuses
           /\ lastResult.thrown # ""
                => /\ lastResult.status = "FAILED"
                   /\ lastResult.executedAmount = RInt(0)
                   /\ lastResult.executedShares = RInt(0)
                   /\ lastResult.reason = lastResult.thrown

\* the case of C22: the order book call of a sweep that had filled an order
\* raised an exception
C22_Witness ==
    /\ SweepEnded
    /\ lastResult.thrown = "timeout"
    /\ lastResult.sweep.filled

\* C12: a copyTrade whose target is below $1, or whose target share count
\* (target / signal price) is below the minimum order size of 5, is SKIPPED and
\* never reaches createOrder.
C12_SizingFloorSkips ==
    \A p \in Procs :
        procs[p].pc = "sweep"
        => /\ ~RLt(procs[p].target, RInt(1))
           /\ ~RLt(RDiv(procs[p].target, procs[p].price), RInt(5))

\* C15: a sweep whose first attempt finds the crossing side of the book empty,
\* before anything has filled, submits no order and ends FAILED (not FILLED,
\* not SKIPPED).
C15_EmptyFirstHardFailure ==
    /\ \A p \in Procs : procs[p].emptyFirst => ~procs[p].tried
    /\ (SweepEnded /\ lastResult.sweep.emptyFirst)
          => /\ lastResult.status = "FAILED"
             /\ ~lastResult.sweep.tried
             /\ lastOrder = NoOrder

\* C16: a sweep that finds the book empty after at least one of its orders
\* has filled ends normally and reports the fills (FILLED, no error).
C16_EmptyMidSweepKeepsFills ==
    (SweepEnded /\ lastResult.sweep.endedEmpty /\ lastResult.sweep.filled)
        => lastResult.status = "FILLED"

\* the retry counter of the sweep of slot p after the step
RetryAfter(p) ==
    IF procs'[p].pc = "sweep" THEN procs'[p].retryCount
    ELSE lastResult'.sweep.retryCount

BothCalls == sizingCall.made /\ sizingPrev.made

\* the two latest calls differ at most in field f, where the later is >=
SameBut(f) ==
    /\ BothCalls
    /\ \A g \in DOMAIN sizingCall.input :
          g # f => sizingCall.input[g] = sizingPrev.input[g]
    /\ RLe(sizingPrev.input[f], sizingCall.input[f])

\* C10: targetUsdSize is non-decreasing in the follower balance and in the
\* multiplier, the other inputs held fixed.
C10_SizingMonotone ==
    (SameBut("yourUsdBalance") \/ SameBut("multiplier"))
        => RLe(sizingPrev.result.targetUsdSize, sizingCall.result.targetUsdSize)

\* the case of C10: a larger follower balance gave a strictly larger target
C10_Witness ==
    /\ SameBut("yourUsdBalance")
    /\ RLt(sizingPrev.input.yourUsdBalance, sizingCall.input.yourUsdBalance)
    /\ RLt(sizingPrev.result.targetUsdSize, sizingCall.result.targetUsdSize)

\* C11: a follower balance that is zero or negative gives a target of exactly 0,
\* whatever the trader balance, the trade size and the multiplier.
C11_ZeroBalanceZeroTarget ==
    (sizingCall.made /\ RLe(sizingCall.input.yourUsdBalance, RInt(0)))
        => sizingCall.result.targetUsdSize = RInt(0)

(***************************************************************************)
(* Properties of the fee distributor                                       *)
(***************************************************************************)
\* a distributeFeesOnProfit call returned in the latest step
FeeReturned == lastFee.kind # "none"

\* the transfers the call that just returned has launched
ReturnedTxs == {i \in DOMAIN feeTxs : feeTxs[i].call = lastFee.call}

\* the events the call that just returned has produced
ReturnedEvents == {i \in DOMAIN feeEvents : feeEvents[i].call = lastFee.call}

\* USDC sent so far to the given role by the call that just returned
SentTo(role) ==
    LET s == {i \in ReturnedTxs : feeTxs[i].role = role /\ feeTxs[i].status = "sent"}
    IN IF s = {} THEN RInt(0) ELSE feeTxs[CHOOSE i \in s : TRUE].amount

\* the conditions of a distribution: a positive profit, a lister, and a
\* lister share of at least $0.01
Payable ==
    /\ RLt(RInt(0), lastFee.profit)
    /\ lastFee.lister # "null"
    /\ RLe(Rat(1, 100), RMul(lastFee.profit, Rat(1, 100)))

\* C18: a call returns one event, having transferred a lister share and a
\* platform share that total profit * (1% + 1%), when the profit is positive,
\* a lister resolves and the lister share is at least $0.01; in every other
\* case it makes no transfer and returns no event.
C18_FeesIffPayable ==
    FeeReturned =>
        IF Payable
        THEN /\ lastFee.kind = "event"
             /\ Cardinality(ReturnedEvents) = 1
             /\ RAdd(SentTo("lister"), SentTo("platform"))
                  = RMul(lastFee.profit, Rat(2, 100))
        ELSE /\ lastFee.kind = "null"
             /\ ReturnedTxs = {}
             /\ ReturnedEvents = {}

\* C18 as the code has it: under the same conditions the call launches two
\* transfers, to the lister and to the platform, each of the 1% share rounded
\* to 0.000001 USDC, and returns one event, whose two fees total
\* profit * (1% + 1%), exactly when both are sent; in every other case it
\* launches no transfer and returns no event.
C18_FeesIffPayableAndSettled ==
    FeeReturned =>
        IF Payable
        THEN LET share == RRound6(RMul(lastFee.profit, Rat(1, 100)))
             IN /\ Cardinality(ReturnedTxs) = 2
                /\ \E i \in ReturnedTxs :
                      /\ feeTxs[i].role = "lister"
                      /\ feeTxs[i].to = lastFee.lister
                      /\ feeTxs[i].amount = share
                /\ \E i \in ReturnedTxs :
                      /\ feeTxs[i].role = "platform"
                      /\ feeTxs[i].to = AdminRevenueWallet
                      /\ feeTxs[i].amount = share
                /\ lastFee.kind = "event"
                      <=> \A i \in ReturnedTxs : feeTxs[i].status = "sent"
                /\ IF lastFee.kind = "event"
                   THEN /\ Cardinality(ReturnedEvents) = 1
                        /\ RAdd(lastFee.event.listerFee, lastFee.event.platformFee)
                             = RMul(lastFee.profit, Rat(2, 100))
                   ELSE ReturnedEvents = {}
        ELSE /\ lastFee.kind = "null"
             /\ ReturnedTxs = {}
             /\ ReturnedEvents = {}

\* the case of C18: a profit whose 1% share is exactly the dust threshold was
\* distributed
C18_Witness ==
    /\ lastFee.kind = "event"
    /\ lastFee.profit = RInt(1)
    /\ SentTo("lister") = Rat(1, 100)
    /\ SentTo("platform") = Rat(1, 100)

\* C19: when a call returns no event because a transfer failed, neither of its
\* two transfers has been made.
C19_NoPartialPayment ==
    (lastFee.kind = "null" /\ lastFee.why = "transfer_failed")
        => \A i \in ReturnedTxs : feeTxs[i].status # "sent"

\* C20: for each trade id at most one fee distribution is executed.
C20_OneDistributionPerTrade ==
    \A t \in TradeIds :
        Cardinality({i \in DOMAIN feeEvents : feeEvents[i].tradeId = t}) <= 1

\* C38: a fee transfer is launched only for a SELL whose copy was filled:
\* after copyTrade returned SKIPPED or FAILED, the lister lookup launches no
\* transfer.
C38_FeeOnlyAfterFilledExit ==
    [][Len(feeTxs') > Len(feeTxs) => copyStatus = "FILLED"]_vars

(***************************************************************************)
(* Properties of the fund check                                            *)
(***************************************************************************)
\* C21: of two checkAndSweepProfits calls less than the interval (one hour)
\* apart at most one runs the underlying check, unless the later one takes the
\* bypass: every underlying check run without the bypass is at least the
\* interval after every earlier one.
C21_ThrottleInterval ==
    \A i, j \in DOMAIN fundChecks :
        (i < j /\ ~fundChecks[j].force)
            => fundChecks[j].at - fundChecks[i].at >= FundCheckIntervalMinutes

\* the case of C21: a call without the bypass came 59 minutes after a check
\* and was turned away
C21_Witness ==
    /\ lastFund.called /\ ~lastFund.force /\ ~lastFund.ran
    /\ fundNow - lastCheckTime = 59

\* the fetchTraderActivities of trader t in tick s ends in this step, after
\* at least one signal
FetchEndsAfterSignal(s, t) ==
    /\ Running(s)
    /\ ticks[s].tr[t].pc \in {"handler", "callback"}
    /\ ticks'[s].status = "free" \/ ticks'[s].tr[t].pc = "done"

\* C30: every trade of a fetch that lies inside the window, has an unrecorded
\* identity and is newer than the trader's high-water mark at the time of the
\* fetch is emitted in that tick, in whatever order the feed lists them: when
\* the trader's turn ends, none of them is left.  (After the one start() of
\* this specification the marks never decrease, so an entry newer than the
\* mark when the feed arrives is newer than the mark when the fetch began.)
C30_AllNewFillsEmitted ==
    [][\A s \in Slots, t \in Traders :
          FetchEndsAfterSignal(s, t) => ticks[s].tr[t].due = {}]_vars

\* C31: a trader's high-water mark never decreases; start() with a cursor
\* sets every trader's mark to the cursor; a tick's cutoff is now minus
\* max(aggregationWindow, 600 s); and an identity is recorded and emitted only
\* when its activity time is after the mark of its trader as it stands at that
\* moment and not before the cutoff of its tick.
C31_MarksAndFilters ==
    [][/\ \A t \in Traders :
             LastTime(lastFetchTime', t) >= LastTime(lastFetchTime, t)
       /\ (monState = "none" /\ monState' # "none" /\ startCursor # 0)
             => \A t \in Traders : LastTime(lastFetchTime', t) = startCursor
       /\ \A s \in Slots :
             (~Running(s) /\ ticks'[s].status = "run")
             => ticks'[s].cutoff = now - Max(AggregationWindowSeconds, 600)
       /\ \A h \in DOMAIN processedHashes' \ DOMAIN processedHashes :
             \E s \in Slots, t \in Traders :
                /\ Running(s)
                /\ ticks'[s].tr[t] # ticks[s].tr[t]
                /\ ticks'[s].tr[t].pc = "handler"
                /\ TsOf[h] > LastTime(lastFetchTime, t)
                /\ TsOf[h] >= ticks[s].cutoff
                /\ LastTime(lastFetchTime', t) = TsOf[h]
                /\ h \in emitted']_vars

\* the case of C31: a monitor started with a cursor has emitted a signal and
\* a mark stands above the cursor
C31_Witness ==
    /\ startCursor # 0
    /\ emitted # {}
    /\ \E t \in Traders : LastTime(lastFetchTime, t) > startCursor

Rejected(s, t) ==
    /\ ticks[s].tr[t].pc \in {"handler", "callback"}
    /\ ticks'[s].status = "run"
    /\ ticks'[s].tr[t].pc = "done"
    /\ ticks'[s].tr[t].cur # "none"

\* C33: the identity of a signal is in the table, and the mark of its trader
\* at or after its time, from the step that hands it to the handler; a
\* handler that rejects leaves the table and the marks as they are; no
\* identity is emitted twice, so none whose handler rejected is emitted
\* again; a tick returns only in the step of its last trader, so a rejecting
\* handler ends the turn of its own trader only.
C33_AtMostOnceDelivery ==
    [][/\ \A s \in Slots, t \in Traders :
             (ticks'[s].status = "run" /\ ticks'[s].tr[t].pc = "handler"
              /\ ticks'[s].tr[t] # ticks[s].tr[t])
             => LET h == ticks'[s].tr[t].cur
                IN /\ h \in DOMAIN processedHashes' \ DOMAIN processedHashes
                   /\ LastTime(lastFetchTime', t) >= TsOf[h]
       /\ \A s \in Slots, t \in Traders :
             Rejected(s, t)
             => /\ ticks[s].tr[t].cur \in emitted'
                /\ processedHashes' = processedHashes
                /\ lastFetchTime' = lastFetchTime
                /\ \A u \in Traders \ {t} : ticks'[s].tr[u] = ticks[s].tr[u]
       /\ ~dupEmitted'
       /\ \A s \in Slots :
             (Running(s) /\ ticks'[s].status = "free")
             => Cardinality({u \in Traders : ticks[s].tr[u].pc # "done"}) = 1]_vars

\* the case of C33: in a running tick the handler of one trader has rejected
\* the signal whose identity is in the table, and the handler of the other
\* trader is being called with another signal
C33_Witness ==
    \E s \in Slots, t, u \in Traders :
        /\ Running(s)
        /\ ticks[s].tr[t].pc = "done"
        /\ ticks[s].tr[t].cur \in DOMAIN processedHashes
        /\ ticks[s].tr[u].pc = "handler"
        /\ ticks[s].tr[u].cur # ticks[s].tr[t].cur

\* C34: once stop() has returned, and until start() is called again, the
\* engine starts no monitor, no watchdog timer and no fund watcher, and
\* isRunning stays false.
C34_NothingStartsAfterStop ==
    [][(stopReturned /\ stopReturned')
       => /\ monitorOf' = "started" => monitorOf = "started"
          /\ watchdogTimer' = "live" => watchdogTimer = "live"
          /\ fundWatcher' = "live" => fundWatcher = "live"
          /\ ~engineOn']_vars

(***************************************************************************)
(* Properties of the position book                                         *)
(***************************************************************************)
\* the positions of a token in a sequence of positions
OfToken(positions, tokenId) ==
    {i \in DOMAIN positions : positions[i].tokenId = tokenId}

\* C25: activePositions grows only by one position, for the token of an
\* executed BUY (size > 0); after a successful take-profit exit or a market
\* found closed no position of that token is left; no other step changes it.
C25_PositionLifecycle ==
    [][/\ lastPosEvent'.kind \in {"exit", "closed"}
            => OfToken(activePositions', lastPosEvent'.tokenId) = {}
       /\ activePositions' # activePositions
            => \/ /\ lastPosEvent'.kind = "buy"
                  /\ Len(activePositions') = Len(activePositions) + 1
                  /\ SubSeq(activePositions', 1, Len(activePositions)) = activePositions
                  /\ activePositions'[Len(activePositions')].tokenId
                       = lastPosEvent'.tokenId
               \/ /\ lastPosEvent'.kind \in {"exit", "closed"}
                  /\ \A t \in TokenIds \ {lastPosEvent'.tokenId} :
                        Cardinality(OfToken(activePositions', t))
                          = Cardinality(OfToken(activePositions, t))]_vars

\* the case of C25: a take-profit exit has just removed a token of which two
\* positions had been opened
C25_Witness ==
    /\ lastPosEvent.kind = "exit"
    /\ pushed = 2
    /\ activePositions = <<>>
    /\ \E r \in TpRuns : /\ Len(tpRuns[r].snap) = 2
                          /\ tpRuns[r].snap[1].tokenId = tpRuns[r].snap[2].tokenId
                          /\ tpRuns[r].i = 2

\* C35: executeManualExit is called at most once for each tracked position,
\* however the passes of checkAutoTp overlap and whatever token ids the
\* positions share.
C35_ExitAtMostOnce ==
    \A id \in 1..MaxPositions : exitCalls[id] <= 1

\* the positions of a book that carry a given id
WithId(positions, id) ==
    {k \in 1..Len(positions) : positions[k].id = id}

\* C36: when the take-profit exit sold only part of the position's shares,
\* the position stays in activePositions and less than the gain on the whole
\* position is added to totalPnl.
C36_PartialExitKeepsPosition ==
    [][(lastPosEvent'.kind = "exit" /\ lastPosEvent'.fill = "partial")
        => /\ (WithId(activePositions, lastPosEvent'.exitOf) # {}
                 => WithId(activePositions', lastPosEvent'.exitOf) # {})
           /\ totalPnl' - totalPnl
                < RealPnl(TpPos(lastPosEvent'.run), tpRuns[lastPosEvent'.run].gain)]_vars

\* C37: when executeManualExit reports failure, activePositions and totalPnl
\* are as before, no callback is called, and the pass goes on with the next
\* position of its copy (or ends after the last one).
C37_FailedExitLeavesBook ==
    [][(lastPosEvent'.kind = "exit_failed")
        => LET r == lastPosEvent'.run
           IN  /\ tpRuns[r].pc = "exit"
               /\ activePositions' = activePositions
               /\ totalPnl' = totalPnl
               /\ lastPosEvent'.callbacks = {}
               /\ IF tpRuns[r].i < Len(tpRuns[r].snap)
                  THEN /\ tpRuns'[r].pc = "market"
                       /\ tpRuns'[r].i = tpRuns[r].i + 1
                       /\ tpRuns'[r].snap = tpRuns[r].snap
                  ELSE tpRuns'[r] = IdleTp]_vars

\* a failed exit left its position in the book and the pass is at the second
\* position of its copy
C37_Witness ==
    /\ lastPosEvent.kind = "exit_failed"
    /\ WithId(activePositions, lastPosEvent.exitOf) # {}
    /\ tpRuns[lastPosEvent.run].pc = "market"
    /\ tpRuns[lastPosEvent.run].i = 2

(***************************************************************************)
(* Properties of the trader-balance cache                                  *)
(***************************************************************************)
FiveMinutesMs == 300000

\* C26: a getTraderBalance call returns the stored value, with no request
\* upstream, exactly when the trader has an entry younger than five minutes
\* (so an entry five minutes old or older is never served); a successful fetch
\* replaces the entry by the new value and the time of the fetch, and nothing
\* else changes the cache.
C26_BalanceCache ==
    [][/\ lastBalance'.kind \in {"cached", "request"}
            => LET e == balanceCache[lastBalance'.trader]
                   young == e.timestamp >= 0 /\ cacheNow - e.timestamp < FiveMinutesMs
               IN  /\ lastBalance'.kind = "cached" <=> young
                   /\ young => /\ lastBalance'.value = e.value
                               /\ balanceCalls' = balanceCalls
                   /\ ~young => \E c \in BalanceCalls :
                                   /\ balanceCalls[c].pc = "idle"
                                   /\ balanceCalls'[c].pc = "fetching"
       /\ lastBalance'.kind = "fetched"
            => /\ balanceCache'[lastBalance'.trader]
                    = [value |-> lastBalance'.value, timestamp |-> cacheNow]
               /\ \A t \in Traders \ {lastBalance'.trader} :
                     balanceCache'[t] = balanceCache[t]
       /\ lastBalance'.kind # "fetched" => balanceCache' = balanceCache]_vars

\* the case of C26: a call has just gone upstream although the trader has an
\* entry, because the entry is exactly five minutes old
C26_Witness ==
    /\ lastBalance.kind = "request"
    /\ balanceCache[lastBalance.trader].timestamp >= 0
    /\ cacheNow - balanceCache[lastBalance.trader].timestamp = FiveMinutesMs

\* the default a failed fetch returns, and the least balance stored
DefaultBalance == 10000
LeastBalance == 1000

\* C39: a failed fetch returns 10000 and leaves the cache as it was, so that
\* the next call for the trader goes upstream again unless the entry the
\* trader already had is younger than five minutes; a successful fetch
\* stores and returns the total, or 1000 when the total is below 1000.
C39_DefaultNotCached ==
    [][/\ lastBalance'.kind = "default"
            => /\ lastBalance'.value = DefaultBalance
               /\ balanceCache' = balanceCache
       /\ (lastBalance.kind = "default" /\ lastBalance'.kind \in {"cached", "request"}
             /\ lastBalance'.trader = lastBalance.trader)
            => LET e == balanceCache[lastBalance.trader]
               IN  lastBalance'.kind = "request"
                     <=> ~(e.timestamp >= 0 /\ cacheNow - e.timestamp < FiveMinutesMs)
       /\ lastBalance'.kind = "fetched"
            => LET raised == IF lastBalance'.total < LeastBalance
                             THEN LeastBalance ELSE lastBalance'.total
               IN  /\ lastBalance'.value = raised
                   /\ balanceCache'[lastBalance'.trader].value = raised]_vars

\* the case of C39: a fetch has just failed for a trader who has no entry
\* younger than five minutes, and a total below 1000 is stored as 1000
C39_Witness ==
    /\ lastBalance.kind = "default"
    /\ LET e == balanceCache[lastBalance.trader]
       IN  ~(e.timestamp >= 0 /\ cacheNow - e.timestamp < FiveMinutesMs)
    /\ \E t \in Traders : /\ balanceCache[t].timestamp >= 0
                         /\ balanceCache[t].value = LeastBalance

(***************************************************************************)
(* Properties of two accounts                                              *)
(***************************************************************************)
\* C27: a step that operates on one account leaves the other account's
\* processed-identity table, high-water mark, trader-balance cache and
\* pendingSpend as they were, and leaves the registry endpoint that the other
\* account's fee distributor uses for lister lookups as it was.
C27_AccountsIsolated ==
    [][\A a \in Accounts, b \in Accounts :
          (a # b /\ lastAccountOp' = a)
          => /\ accounts'[b] = accounts[b]
             /\ accounts[b].feeDistributor => apiUrl' = apiUrl]_vars

(***************************************************************************)
(* The worked example of proportional sizing                               *)
(***************************************************************************)
\* a copyTrade of a BUY of 500 USD at 0.40 by a trader worth 10000, with 1000
\* USDC usable and multiplier 1
InScenario(pr) ==
    /\ pr.side = "BUY" /\ pr.sizeUsd = RInt(500) /\ pr.price = Rat(40, 100)
    /\ pr.usable = RInt(1000) /\ pr.traderBalance = RInt(10000)
    /\ tradeMultiplier = RInt(1)

DustFloor == Rat(1, 2)

\* C29: every iteration of the sweep of createOrder either fills a positive
\* amount and strictly decreases remaining, or adds one to the retry counter,
\* or leaves the loop; and the loop is left once remaining is at or below the
\* 0.50 dust floor or three attempts in a row have failed, so that a sweep
\* still in its loop has remaining > 0.50 and fewer than three retries.
C29_SweepTerminates ==
    [][\A p \in Procs :
        (procs[p].pc = "sweep" /\ procs'[p] # procs[p])
        => \/ procs'[p].pc # "sweep"
           \/ /\ \/ /\ RLt(procs'[p].remaining, procs[p].remaining)
                     /\ lastOrder' # NoOrder /\ lastOrder'.accepted
                     /\ lastOrder'.size.n > 0
                  \/ /\ procs'[p].retryCount = procs[p].retryCount + 1
                     /\ procs'[p].remaining = procs[p].remaining
              /\ RLt(DustFloor, procs'[p].remaining)
              /\ procs'[p].retryCount < 3]_vars

====
